---- MODULE Spec2Model ----
(***************************************************************************)
(* consul-ns1: one-way synchronisation of the Consul service catalog onto  *)
(* an NS1 DNS zone.  The module models                                      *)
(*   - the data types and the two diff functions (types file),             *)
(*   - the Consul mirror   (consul.fetchIndefinitely, consul.fetch),       *)
(*   - the NS1 mirror      (ns1.fetchIndefinitely, ns1.fetch),             *)
(*   - the reconciler      (consul.sync, ns1.create, ns1.remove),          *)
(*   - the supervisor      (catalog.Sync) and the CLI (Command.Run),       *)
(*   - the two remote systems the code talks to (Consul catalog, NS1 zone).*)
(* Go strings are TLA+ strings; a Go map is a function; a nil map and an   *)
(* empty map are both the empty function, since the code only takes len()  *)
(* of and looks keys up in maps that may be nil.                           *)
(***************************************************************************)
EXTENDS Integers, Sequences, FiniteSets, TLC

VARIABLES
    \* ---- configuration (flags of sync-catalog), fixed after Init
    ns1Prefix,        \* -ns1-service-prefix
    dnsTTL,           \* -ns1-dns-ttl
    pollIntervalOK,   \* whether -ns1-poll-interval parses as a duration
    \* ---- the remote systems
    registry,         \* Consul catalog: service name -> list of CatalogService
    regChanges,       \* number of catalog changes so far (bounded)
    zoneExists,       \* whether NS1 knows the zone
    zone,             \* NS1 zone: <<domain, type>> -> record
    \* ---- mirrors
    cServices,        \* consul.services
    nServices,        \* ns1.services
    cTrigger,         \* tokens in consul.trigger (capacity 1)
    nTrigger,         \* tokens in ns1.trigger (capacity 1)
    cPc,              \* position of consul.fetchIndefinitely
    subsequentErrors, \* its local subsequentErrors
    waitIndex,        \* its local waitIndex
    nPc,              \* position of ns1.fetchIndefinitely
    \* ---- reconciler (consul.sync)
    sPc,              \* position of consul.sync
    cTriggered,
    nTriggered,
    todo,             \* services of the current create() loop not yet iterated
    inflight,         \* write calls started and not yet returned
    count,            \* the count of the create()/remove() in progress
    \* ---- supervisor (catalog.Sync) and CLI (Command.Run)
    syncPc,           \* position of Sync
    awaiting,         \* the channels Sync still has to receive from, in order
    closed,           \* the set of closed channels
    cliPc,            \* position of Command.Run
    sigPending,       \* an os.Interrupt is waiting in sigCh
    exitCode,         \* value returned by Command.Run (-1: not yet)
    \* ---- history of the run (what has been observed so far)
    hist,
    \* ---- inputs and outputs of the diff functions applied on their own
    dA, dB, dOut, dPc

vars == <<ns1Prefix, dnsTTL, pollIntervalOK, registry, regChanges, zoneExists,
          zone, cServices, nServices, cTrigger, nTrigger, cPc,
          subsequentErrors, waitIndex, nPc, sPc, cTriggered, nTriggered, todo,
          inflight,
          count, syncPc, awaiting, closed, cliPc, sigPending, exitCode, hist,
          dA, dB, dOut, dPc>>

-----------------------------------------------------------------------------
(* Go maps *)

EmptyMap == <<>>

Put(m, k, v) == [x \in (DOMAIN m) \cup {k} |-> IF x = k THEN v ELSE m[x]]

len(m) == Cardinality(DOMAIN m)

-----------------------------------------------------------------------------
(* Data types *)

\* type recordIDs, zero value
NoIDs == [aRecID |-> "", srvRecID |-> ""]

\* type recordTTLs, zero value
NoTTLs == [aRecTTL |-> 0, srvRecTTL |-> 0]

\* type service, zero value
ZeroService ==
    [id |-> "", name |-> "", nodes |-> EmptyMap, healths |-> EmptyMap,
     ttls |-> NoTTLs, ns1IDs |-> NoIDs, consulID |-> ""]

\* type node, zero value (host, datacenter and consulID are never assigned)
ZeroNode == [aRecAnswer |-> "", srvRecAnswers |-> EmptyMap]

-----------------------------------------------------------------------------
(* The diff functions *)

\* serviceOnlyInFirst with the node comparison of onlyInFirst left in
serviceOnlyInFirst_nodes(servicesA, servicesB) ==
    LET keep == {k \in DOMAIN servicesA :
                    \/ k \notin DOMAIN servicesB
                    \/ servicesA[k].nodes # servicesB[k].nodes}
    IN  [k \in keep |-> servicesA[k]]

serviceOnlyInFirst(servicesA, servicesB) ==
    LET keep == {k \in DOMAIN servicesA : k \notin DOMAIN servicesB}
    IN  [k \in keep |-> servicesA[k]]

\* nodesAreEqual without the two comparisons of lengths
nodesAreEqual_oneWay(expected, actual) ==
    \A h \in DOMAIN expected :
        /\ h \in DOMAIN actual
        /\ actual[h].aRecAnswer = expected[h].aRecAnswer
        /\ \A p \in DOMAIN expected[h].srvRecAnswers :
              /\ p \in DOMAIN actual[h].srvRecAnswers
              /\ expected[h].srvRecAnswers[p] = actual[h].srvRecAnswers[p]

nodesAreEqual(expected, actual) ==
    /\ len(expected) = len(actual)
    /\ \A h \in DOMAIN expected :
          /\ h \in DOMAIN actual
          /\ actual[h].aRecAnswer = expected[h].aRecAnswer
          /\ len(expected[h].srvRecAnswers) = len(actual[h].srvRecAnswers)
          /\ \A p \in DOMAIN expected[h].srvRecAnswers :
                /\ p \in DOMAIN actual[h].srvRecAnswers
                /\ expected[h].srvRecAnswers[p] = actual[h].srvRecAnswers[p]

\* the payload without the record IDs of the second map
mergedService_noBackfill(sa, sb) ==
    [id       |-> IF sa.id = "" THEN sb.id ELSE sa.id,
     name     |-> IF sa.name = "" THEN sb.name ELSE sa.name,
     nodes    |-> sa.nodes,
     healths  |-> EmptyMap,
     ttls     |-> [aRecTTL   |-> IF sa.ttls.aRecTTL = 0
                                 THEN sb.ttls.aRecTTL ELSE sa.ttls.aRecTTL,
                   srvRecTTL |-> IF sa.ttls.srvRecTTL = 0
                                 THEN sb.ttls.srvRecTTL ELSE sa.ttls.srvRecTTL],
     ns1IDs   |-> sa.ns1IDs,
     consulID |-> ""]

\* the payload onlyInFirst builds for a service present in both maps
mergedService(sa, sb) ==
    [id       |-> IF sa.id = "" THEN sb.id ELSE sa.id,
     name     |-> IF sa.name = "" THEN sb.name ELSE sa.name,
     nodes    |-> sa.nodes,
     healths  |-> EmptyMap,
     ttls     |-> [aRecTTL   |-> IF sa.ttls.aRecTTL = 0
                                 THEN sb.ttls.aRecTTL ELSE sa.ttls.aRecTTL,
                   srvRecTTL |-> IF sa.ttls.srvRecTTL = 0
                                 THEN sb.ttls.srvRecTTL ELSE sa.ttls.srvRecTTL],
     ns1IDs   |-> [aRecID   |-> IF sa.ns1IDs.aRecID = ""
                                THEN sb.ns1IDs.aRecID ELSE sa.ns1IDs.aRecID,
                   srvRecID |-> IF sa.ns1IDs.srvRecID = ""
                                THEN sb.ns1IDs.srvRecID ELSE sa.ns1IDs.srvRecID],
     consulID |-> ""]

\* onlyInFirst comparing the record IDs as well
onlyInFirst_compareIDs(servicesA, servicesB) ==
    LET keep == {k \in DOMAIN servicesA :
                    \/ k \notin DOMAIN servicesB
                    \/ ~nodesAreEqual(servicesA[k].nodes, servicesB[k].nodes)
                    \/ servicesA[k].ttls # servicesB[k].ttls
                    \/ servicesA[k].ns1IDs # servicesB[k].ns1IDs}
    IN  [k \in keep |-> IF k \notin DOMAIN servicesB
                        THEN servicesA[k]
                        ELSE mergedService(servicesA[k], servicesB[k])]

\* onlyInFirst without the TTL comparison
onlyInFirst_noTTL(servicesA, servicesB) ==
    LET keep == {k \in DOMAIN servicesA :
                    \/ k \notin DOMAIN servicesB
                    \/ ~nodesAreEqual(servicesA[k].nodes, servicesB[k].nodes)}
    IN  [k \in keep |-> IF k \notin DOMAIN servicesB
                        THEN servicesA[k]
                        ELSE mergedService(servicesA[k], servicesB[k])]

onlyInFirst(servicesA, servicesB) ==
    LET keep == {k \in DOMAIN servicesA :
                    \/ k \notin DOMAIN servicesB
                    \/ ~nodesAreEqual(servicesA[k].nodes, servicesB[k].nodes)
                    \/ servicesA[k].ttls # servicesB[k].ttls}
    IN  [k \in keep |-> IF k \notin DOMAIN servicesB
                        THEN servicesA[k]
                        ELSE mergedService(servicesA[k], servicesB[k])]

-----------------------------------------------------------------------------
(* Go library functions used by the code *)

\* strings.TrimPrefix
TrimPrefix(s, prefix) ==
    IF Len(s) >= Len(prefix) /\ SubSeq(s, 1, Len(prefix)) = prefix
    THEN SubSeq(s, Len(prefix) + 1, Len(s))
    ELSE s

\* strings.TrimSuffix
TrimSuffix(s, suffix) ==
    IF Len(s) >= Len(suffix)
       /\ SubSeq(s, Len(s) - Len(suffix) + 1, Len(s)) = suffix
    THEN SubSeq(s, 1, Len(s) - Len(suffix))
    ELSE s

\* strings.Fields: the maximal runs of non-space characters of s, in order
RECURSIVE FieldsFrom(_, _, _)
FieldsFrom(s, i, cur) ==
    IF i > Len(s)
    THEN IF cur = "" THEN <<>> ELSE <<cur>>
    ELSE IF SubSeq(s, i, i) = " "
         THEN (IF cur = "" THEN <<>> ELSE <<cur>>) \o FieldsFrom(s, i + 1, "")
         ELSE FieldsFrom(s, i + 1, cur \o SubSeq(s, i, i))

Fields(s) == FieldsFrom(s, 1, "")

\* strings.Join(fields, " "): how the provider renders an answer's rdata as
\* the short answer of a zone listing
RECURSIVE JoinFields(_)
JoinFields(fs) ==
    IF Len(fs) = 0 THEN ""
    ELSE IF Len(fs) = 1 THEN fs[1]
    ELSE fs[1] \o " " \o JoinFields(Tail(fs))

\* the decimal numerals the model's integers are written as
Numerals == [n \in {0, 1, 2, 3, 4, 5, 80} |->
                CASE n = 0 -> "0" [] n = 1 -> "1" [] n = 2 -> "2"
                  [] n = 3 -> "3" [] n = 4 -> "4" [] n = 5 -> "5"
                  [] n = 80 -> "80"]

\* fmt.Sprintf("%d", n)
FormatInt(n) == Numerals[n]

\* strconv.ParseInt(s, 10, 64): ok is FALSE where Go returns an error
ParseInt(s) ==
    IF \E n \in DOMAIN Numerals : Numerals[n] = s
    THEN [ok |-> TRUE, val |-> CHOOSE n \in DOMAIN Numerals : Numerals[n] = s]
    ELSE [ok |-> FALSE, val |-> 0]

\* srvAnswer.String
srvAnswerString(a) ==
    FormatInt(a.priority) \o " " \o FormatInt(a.weight) \o " "
        \o FormatInt(a.port) \o " " \o a.address

\* all the orders in which a Go range loop may visit the keys in S
Orders(S) ==
    {f \in [1..Cardinality(S) -> S] : \A i, j \in 1..Cardinality(S) :
                                            f[i] = f[j] => i = j}

-----------------------------------------------------------------------------
(* Consul mirror: transformations *)

\* health values
passing == "passing"
critical == "critical"
unknown == ""

RECURSIVE transformHealthFrom(_, _)
transformHealthFrom(chealths, healths) ==
    IF Len(chealths) = 0 THEN healths
    ELSE LET h == Head(chealths)
             v == CASE h.Status = "passing" -> passing
                    [] h.Status = "critical" -> critical
                    [] OTHER -> unknown
         IN  transformHealthFrom(Tail(chealths), Put(healths, h.ServiceID, v))

transformHealth(chealths) == transformHealthFrom(chealths, EmptyMap)

RECURSIVE transformNodesFrom(_, _)
transformNodesFrom(cnodes, nodes) ==
    IF Len(cnodes) = 0 THEN nodes
    ELSE LET n == Head(cnodes)
             address == IF Len(n.ServiceAddress) = 0
                        THEN n.Address ELSE n.ServiceAddress
             node0 == IF address \in DOMAIN nodes
                      THEN nodes[address] ELSE ZeroNode
             node1 == IF node0.aRecAnswer = ""
                      THEN [node0 EXCEPT !.aRecAnswer = address] ELSE node0
             node2 == IF n.ServicePort \in DOMAIN node1.srvRecAnswers
                      THEN node1
                      ELSE [node1 EXCEPT !.srvRecAnswers =
                               Put(@, n.ServicePort,
                                   [priority |-> 1, weight |-> 1,
                                    port |-> n.ServicePort,
                                    address |-> address])]
         IN  transformNodesFrom(Tail(cnodes), Put(nodes, address, node2))

\* transformNodes keyed by the node's address whatever its service address
transformNodes_byNodeAddress(cnodes) ==
    transformNodesFrom([i \in DOMAIN cnodes |->
                           [cnodes[i] EXCEPT !.ServiceAddress = ""]], EmptyMap)

transformNodes(cnodes) == transformNodesFrom(cnodes, EmptyMap)

\* transformServices taking the Consul name for the A record's ID
transformServices_withIDs(cservices) ==
    [k \in cservices |->
        [ZeroService EXCEPT !.id = k, !.name = k, !.consulID = k,
                            !.ns1IDs.aRecID = k]]

\* cservices is the key set of the map Catalog().Services returns
transformServices(cservices) ==
    [k \in cservices |->
        [ZeroService EXCEPT !.id = k, !.name = k, !.consulID = k]]

\* consul.fetch publishing the instances of the services without a critical
\* check only
consulFetch_healthyOnly(reg, nodesFail, healthFail, ttl) ==
    LET services == transformServices(DOMAIN reg)
    IN  [id \in DOMAIN services |->
            IF id \in nodesFail
            THEN services[id]
            ELSE [services[id] EXCEPT
                    !.nodes   = IF id \notin healthFail
                                   /\ \E i \in DOMAIN reg[id].checks :
                                          reg[id].checks[i].Status = "critical"
                                THEN EmptyMap
                                ELSE transformNodes(reg[id].nodes),
                    !.healths = IF id \in healthFail
                                THEN EmptyMap
                                ELSE transformHealth(reg[id].checks),
                    !.ttls    = [aRecTTL |-> ttl, srvRecTTL |-> ttl]]]

\* The map consul.fetch installs when the list-services call succeeded on
\* catalog reg.  nodesFail / healthFail: the services whose fetchNodes /
\* fetchHealth call failed.
consulFetch(reg, nodesFail, healthFail, ttl) ==
    LET services == transformServices(DOMAIN reg)
    IN  [id \in DOMAIN services |->
            IF id \in nodesFail
            THEN services[id]
            ELSE [services[id] EXCEPT
                    !.nodes   = transformNodes(reg[id].nodes),
                    !.healths = IF id \in healthFail
                                THEN EmptyMap
                                ELSE transformHealth(reg[id].checks),
                    !.ttls    = [aRecTTL |-> ttl, srvRecTTL |-> ttl]]]

-----------------------------------------------------------------------------
(* NS1 mirror: transformations *)

\* the zone synchronised to (-ns1-domain)
ZoneName == "example.com"

\* one iteration of the loop over record.ShortAns
transformAnswer(svc, recType, ans) ==
    LET ansFields == Fields(ans)
        address == IF Len(ansFields) = 4 THEN ansFields[4] ELSE ansFields[1]
        ansNode == IF address \in DOMAIN svc.nodes
                   THEN svc.nodes[address] ELSE ZeroNode
    IN  IF recType = "A"
        THEN [svc EXCEPT !.nodes =
                 Put(@, address, [ansNode EXCEPT !.aRecAnswer = address])]
        ELSE IF recType = "SRV" /\ Len(ansFields) = 4
        THEN LET priority == ParseInt(ansFields[1])
                 weight == ParseInt(ansFields[2])
                 port == ParseInt(ansFields[3])
             IN  IF ~priority.ok \/ ~weight.ok \/ ~port.ok
                 THEN svc
                 ELSE [svc EXCEPT !.nodes =
                          Put(@, address,
                              [ansNode EXCEPT !.srvRecAnswers =
                                  Put(@, port.val,
                                      [priority |-> priority.val,
                                       weight |-> weight.val,
                                       port |-> port.val,
                                       address |-> address])])]
        ELSE [svc EXCEPT !.nodes = Put(@, address, ansNode)]

RECURSIVE transformAnswers(_, _, _)
transformAnswers(svc, recType, shortAns) ==
    IF Len(shortAns) = 0 THEN svc
    ELSE transformAnswers(transformAnswer(svc, recType, Head(shortAns)),
                          recType, Tail(shortAns))

\* transformRecord taking the records of every type
transformRecord_allTypes(services, record, prefix) ==
    LET serviceName ==
            TrimSuffix(TrimPrefix(record.Domain, prefix), "." \o ZoneName)
        svc0 == IF serviceName \in DOMAIN services
                THEN services[serviceName]
                ELSE [ZeroService EXCEPT !.name = serviceName]
        svc1 == IF record.Type = "A"
                THEN [svc0 EXCEPT !.ns1IDs.aRecID = record.ID,
                                  !.ttls.aRecTTL = record.TTL]
                ELSE IF record.Type = "SRV"
                THEN [svc0 EXCEPT !.ns1IDs.srvRecID = record.ID,
                                  !.ttls.srvRecTTL = record.TTL]
                ELSE svc0
    IN  Put(services, serviceName,
            transformAnswers(svc1, record.Type, record.ShortAns))

\* one iteration of the loop over ns1Zone.Records
transformRecord(services, record, prefix) ==
    IF record.Type # "A" /\ record.Type # "SRV"
    THEN services
    ELSE LET serviceName ==
                 TrimSuffix(TrimPrefix(record.Domain, prefix), "." \o ZoneName)
             svc0 == IF serviceName \in DOMAIN services
                     THEN services[serviceName]
                     ELSE [ZeroService EXCEPT !.name = serviceName]
             svc1 == IF record.Type = "A"
                     THEN [svc0 EXCEPT !.ns1IDs.aRecID = record.ID,
                                       !.ttls.aRecTTL = record.TTL]
                     ELSE [svc0 EXCEPT !.ns1IDs.srvRecID = record.ID,
                                       !.ttls.srvRecTTL = record.TTL]
         IN  Put(services, serviceName,
                 transformAnswers(svc1, record.Type, record.ShortAns))

RECURSIVE transformRecordsFrom(_, _, _)
transformRecordsFrom(records, services, prefix) ==
    IF Len(records) = 0 THEN services
    ELSE transformRecordsFrom(Tail(records),
                              transformRecord(services, Head(records), prefix),
                              prefix)

\* records: ns1Zone.Records, each [Domain, ID, TTL, ShortAns, Type]
transformZoneRecords(records, prefix) ==
    transformRecordsFrom(records, EmptyMap, prefix)

-----------------------------------------------------------------------------
(* The NS1 API as the code uses it.  The zone is a function from            *)
(* <<domain, type>> to the record stored there: [ID, TTL, Answers, Meta],   *)
(* Answers the list of rdata field lists in the order written, Meta all    *)
(* the other fields of a record (filters, regions, ...).                   *)

\* the ID the provider gives a record it creates
RecordID(domain, t) == t \o ":" \o domain

\* Zones.Get: the records of the zone, in one of the orders a listing may
\* have; an answer's short form is its rdata joined by spaces
ZoneListings(z) ==
    {[i \in 1..Len(o) |->
        [Domain   |-> o[i][1],
         Type     |-> o[i][2],
         ID       |-> z[o[i]].ID,
         TTL      |-> z[o[i]].TTL,
         ShortAns |-> [j \in 1..Len(z[o[i]].Answers) |->
                          JoinFields(z[o[i]].Answers[j])]]] :
     o \in Orders(DOMAIN z)}

\* dns.NewRecord(zone, domain, t)
NewRecord(domain, t) ==
    [Domain |-> domain, Type |-> t, TTL |-> 0, Answers |-> <<>>,
     Meta |-> "default"]

\* Records.Get(zone, domain, t); ok is FALSE where the call returns an error
RecordsGet(z, domain, t, fails) ==
    IF fails \/ <<domain, t>> \notin DOMAIN z
    THEN [ok |-> FALSE, rec |-> NewRecord(domain, t)]
    ELSE [ok |-> TRUE,
          rec |-> [Domain |-> domain, Type |-> t, TTL |-> z[<<domain, t>>].TTL,
                   Answers |-> z[<<domain, t>>].Answers,
                   Meta |-> z[<<domain, t>>].Meta]]

\* Records.Create(r): refused when the record exists
RecordsCreate(z, r) ==
    IF <<r.Domain, r.Type>> \in DOMAIN z
    THEN [ok |-> FALSE, zone |-> z]
    ELSE [ok |-> TRUE,
          zone |-> Put(z, <<r.Domain, r.Type>>,
                       [ID |-> RecordID(r.Domain, r.Type), TTL |-> r.TTL,
                        Answers |-> r.Answers, Meta |-> r.Meta])]

\* Records.Update(r): refused when the record does not exist
RecordsUpdate(z, r) ==
    IF <<r.Domain, r.Type>> \notin DOMAIN z
    THEN [ok |-> FALSE, zone |-> z]
    ELSE [ok |-> TRUE,
          zone |-> [z EXCEPT ![<<r.Domain, r.Type>>] =
                       [ID |-> @.ID, TTL |-> r.TTL,
                        Answers |-> r.Answers, Meta |-> r.Meta]]]

\* Records.Delete(zone, domain, t): refused when the record does not exist
RecordsDelete(z, domain, t) ==
    IF <<domain, t>> \notin DOMAIN z
    THEN [ok |-> FALSE, zone |-> z]
    ELSE [ok |-> TRUE,
          zone |-> [k \in (DOMAIN z) \ {<<domain, t>>} |-> z[k]]]

-----------------------------------------------------------------------------
(* Reconciler: building the write calls *)

\* generateRecord leaving the TTL of a fetched record as it is
generateRecord_keepTTL(id, name, t, got, ttl) ==
    LET domain == name \o "." \o ZoneName
    IN  IF id = ""
        THEN [ok |-> TRUE,
              rec |-> [NewRecord(domain, t) EXCEPT !.TTL = ttl]]
        ELSE IF ~got.ok
        THEN [ok |-> FALSE, rec |-> NewRecord(domain, t)]
        ELSE [ok |-> TRUE, rec |-> [got.rec EXCEPT !.Answers = <<>>]]

\* generateRecord building a new record whatever the ID
generateRecord_dropFields(id, name, t, got, ttl) ==
    LET domain == name \o "." \o ZoneName
    IN  IF id # "" /\ ~got.ok
        THEN [ok |-> FALSE, rec |-> NewRecord(domain, t)]
        ELSE [ok |-> TRUE,
              rec |-> [NewRecord(domain, t) EXCEPT !.TTL = ttl]]

\* generateRecord(id, name, t); got is the result of the Records.Get call it
\* makes when id is not empty
generateRecord(id, name, t, got, ttl) ==
    LET domain == name \o "." \o ZoneName
    IN  IF id = ""
        THEN [ok |-> TRUE,
              rec |-> [NewRecord(domain, t) EXCEPT !.TTL = ttl]]
        ELSE IF ~got.ok
        THEN [ok |-> FALSE, rec |-> NewRecord(domain, t)]
        ELSE [ok |-> TRUE,
              rec |-> [got.rec EXCEPT !.Answers = <<>>, !.TTL = ttl]]

\* the record create() works on: the generated one, or a new one when
\* generating failed
recordFor(id, name, t, got, ttl) ==
    LET r == generateRecord(id, name, t, got, ttl)
    IN  IF r.ok THEN r.rec ELSE generateRecord("", name, t, got, ttl).rec

\* the A answers create() adds for the nodes visited in order nodeOrder
RECURSIVE aAnswers(_, _)
aAnswers(nodes, nodeOrder) ==
    IF Len(nodeOrder) = 0 THEN <<>>
    ELSE LET node == nodes[Head(nodeOrder)]
         IN  (IF node.aRecAnswer # "" THEN << <<node.aRecAnswer>> >> ELSE <<>>)
                 \o aAnswers(nodes, Tail(nodeOrder))

\* the SRV answers create() adds for one node, ports visited in portOrder
srvAnswersOf(node, portOrder) ==
    [i \in 1..Len(portOrder) |->
        Fields(srvAnswerString(node.srvRecAnswers[portOrder[i]]))]

\* the SRV answers create() adds; portOrders[h] is the order for node h
RECURSIVE srvAnswers(_, _, _)
srvAnswers(nodes, nodeOrder, portOrders) ==
    IF Len(nodeOrder) = 0 THEN <<>>
    ELSE srvAnswersOf(nodes[Head(nodeOrder)], portOrders[Head(nodeOrder)])
             \o srvAnswers(nodes, Tail(nodeOrder), portOrders)

\* upsertRecord creating whatever the ID
upsertOp_alwaysCreate(id) == "create"

\* upsertRecord(id, rec): which call it makes
upsertOp(id) == IF id = "" THEN "create" ELSE "update"

\* create() naming the records without the prefix
createCalls_noPrefix(k, s, prefix, ttl, gotA, gotSRV, nodeOrder, portOrders) ==
    LET aRec == recordFor(s.ns1IDs.aRecID, k, "A", gotA, ttl)
        srvRec == recordFor(s.ns1IDs.srvRecID, k, "SRV", gotSRV, ttl)
    IN  {[op |-> upsertOp(s.ns1IDs.aRecID),
          rec |-> [aRec EXCEPT !.Answers = aAnswers(s.nodes, nodeOrder)]],
         [op |-> upsertOp(s.ns1IDs.srvRecID),
          rec |-> [srvRec EXCEPT !.Answers =
                      srvAnswers(s.nodes, nodeOrder, portOrders)]]}

\* the two write calls one iteration of the loop of create() starts for
\* service s under key k
createCalls(k, s, prefix, ttl, gotA, gotSRV, nodeOrder, portOrders) ==
    LET name == prefix \o k
        aRec == recordFor(s.ns1IDs.aRecID, name, "A", gotA, ttl)
        srvRec == recordFor(s.ns1IDs.srvRecID, name, "SRV", gotSRV, ttl)
    IN  {[op |-> upsertOp(s.ns1IDs.aRecID),
          rec |-> [aRec EXCEPT !.Answers = aAnswers(s.nodes, nodeOrder)]],
         [op |-> upsertOp(s.ns1IDs.srvRecID),
          rec |-> [srvRec EXCEPT !.Answers =
                      srvAnswers(s.nodes, nodeOrder, portOrders)]]}

\* remove() without the case of the apex
removeDomain_noApex(k, prefix) == (prefix \o k) \o "." \o ZoneName

\* the domain remove() deletes the records of service key k at
removeDomain(k, prefix) ==
    IF k = ZoneName THEN ZoneName ELSE (prefix \o k) \o "." \o ZoneName

\* remove() deleting both records of a service that has a record ID
removeCalls_bothTypes(services, prefix) ==
    {[op |-> "delete",
      rec |-> NewRecord(removeDomain(k, prefix), t)] :
        k \in {x \in DOMAIN services : services[x].ns1IDs # NoIDs},
        t \in {"A", "SRV"}}

\* the delete calls remove() starts
removeCalls(services, prefix) ==
    {[op |-> "delete",
      rec |-> NewRecord(removeDomain(k, prefix), "A")] :
        k \in {x \in DOMAIN services : services[x].ns1IDs.aRecID # ""}}
    \cup
    {[op |-> "delete",
      rec |-> NewRecord(removeDomain(k, prefix), "SRV")] :
        k \in {x \in DOMAIN services : services[x].ns1IDs.srvRecID # ""}}

-----------------------------------------------------------------------------
(* Bounds and inputs of the model *)

\* consul.fetchIndefinitely gives up when subsequentErrors exceeds this
MaxSubsequentErrors == 10

\* default of -ns1-dns-ttl
DefaultTTL == 60

\* number of times the Consul catalog changes during a run
MaxRegistryChanges == 1

CatalogNode(addr, port) ==
    [Address |-> addr, ServiceAddress |-> "", ServicePort |-> port,
     ServiceID |-> "web"]

\* a catalog of one service with one instance
CatalogS1 ==
    [s1 |-> [nodes  |-> <<CatalogNode("10.0.0.1", 80)>>,
             checks |-> <<[Status |-> "passing", ServiceID |-> "web"]>>]]

\* the contents the Consul catalog takes
Catalogs == {EmptyMap, CatalogS1}

PortOrders(nodes) ==
    {f \in [DOMAIN nodes ->
              UNION {Orders(DOMAIN nodes[h].srvRecAnswers) : h \in DOMAIN nodes}] :
        \A h \in DOMAIN nodes : f[h] \in Orders(DOMAIN nodes[h].srvRecAnswers)}

Channels ==
    {"stop", "stopped", "fetchConsulStop", "fetchConsulStopped",
     "fetchNS1Stop", "fetchNS1Stopped", "toNS1Stop", "toNS1Stopped"}

-----------------------------------------------------------------------------
(* Initial states *)

NoHistory ==
    [cRefreshed |-> FALSE,  \* the Consul mirror has replaced its cache
     nRefreshed |-> FALSE,  \* the NS1 mirror has replaced its cache
     cFresh |-> FALSE,      \* ... since the end of the last pass
     nFresh |-> FALSE,
     failRun |-> 0,         \* failed Consul fetches since the last success
     nFailRun |-> 0,        \* NS1 fetches that failed in a row, from the
                            \* start of the mirror to its first success
                            \* (counted up to MaxSubsequentErrors + 1)
     cGaveUp |-> FALSE,     \* the Consul mirror returned without a stop
     agentsStarted |-> FALSE,
     writes |-> FALSE,      \* a create, update or delete call was made
     upserted |-> {}]       \* the services create() has iterated in the
                            \* pass in progress

DiffIdle == dA = EmptyMap /\ dB = EmptyMap /\ dOut = EmptyMap /\ dPc = "idle"

\* the state when Command.Run has started Sync
InitProgram(prefixes, ttls, catalogs, zones) ==
    /\ ns1Prefix \in prefixes
    /\ dnsTTL \in ttls
    /\ pollIntervalOK \in BOOLEAN
    /\ registry \in catalogs
    /\ regChanges = 0
    /\ zoneExists \in BOOLEAN
    /\ zone \in zones
    /\ cServices = EmptyMap
    /\ nServices = EmptyMap
    /\ cTrigger = 0
    /\ nTrigger = 0
    /\ cPc = "idle"
    /\ subsequentErrors = 0
    /\ waitIndex = 1
    /\ nPc = "idle"
    /\ sPc = "idle"
    /\ cTriggered = FALSE
    /\ nTriggered = FALSE
    /\ todo = EmptyMap
    /\ inflight = {}
    /\ count = 0
    /\ syncPc = "parse"
    /\ awaiting = <<>>
    /\ closed = {}
    /\ cliPc = "select"
    /\ sigPending = "none"
    /\ exitCode = -1
    /\ hist = NoHistory

InitWith(prefixes, ttls, catalogs, zones) ==
    InitProgram(prefixes, ttls, catalogs, zones) /\ DiffIdle

\* a zone holding one record no Consul service corresponds to
ForeignZone ==
    [k \in {<<"www." \o ZoneName, "A">>} |->
        [ID |-> "r1", TTL |-> 3600, Answers |-> << <<"10.0.0.9">> >>,
         Meta |-> "custom"]]

\* either a service to create in an empty zone, or a record to delete
Init ==
    \/ InitWith({""}, {DefaultTTL}, {CatalogS1}, {EmptyMap})
    \/ InitWith({""}, {DefaultTTL}, {EmptyMap}, {ForeignZone})

-----------------------------------------------------------------------------
(* Environment *)

diffVars == <<dA, dB, dOut, dPc>>
cfgVars == <<ns1Prefix, dnsTTL, pollIntervalOK, zoneExists>>
cliVars == <<cliPc, sigPending, exitCode>>
passVars == <<sPc, cTriggered, nTriggered, todo, inflight, count>>
consulVars == <<cServices, cTrigger, cPc, subsequentErrors, waitIndex>>
ns1Vars == <<nServices, nTrigger, nPc>>
superVars == <<syncPc, awaiting>>

\* the Consul catalog changes
RegistryChange ==
    /\ regChanges < MaxRegistryChanges
    /\ regChanges' = regChanges + 1
    /\ registry' \in Catalogs \ {registry}
    /\ UNCHANGED <<cfgVars, zone, consulVars, ns1Vars, passVars, superVars,
                   closed, cliVars, hist, diffVars>>

\* the user interrupts the process (os.Interrupt is delivered to sigCh)
Sigint ==
    /\ sigPending = "none"
    /\ cliPc # "exited"
    /\ sigPending' = "pending"
    /\ UNCHANGED <<cfgVars, registry, regChanges, zone, consulVars, ns1Vars,
                   passVars, superVars, closed, cliPc, exitCode, hist,
                   diffVars>>

-----------------------------------------------------------------------------
(* Command.Run, after it has started Sync *)

\* case <-stopped: return 1
CliStopped ==
    /\ cliPc = "select"
    /\ "stopped" \in closed
    /\ cliPc' = "exited"
    /\ exitCode' = 1
    /\ UNCHANGED <<cfgVars, registry, regChanges, zone, consulVars, ns1Vars,
                   passVars, superVars, closed, sigPending, hist, diffVars>>

\* case <-sigCh: close(stop)
CliInterrupted ==
    /\ cliPc = "select"
    /\ sigPending = "pending"
    /\ sigPending' = "taken"
    /\ cliPc' = "draining"
    /\ closed' = closed \cup {"stop"}
    /\ UNCHANGED <<cfgVars, registry, regChanges, zone, consulVars, ns1Vars,
                   passVars, superVars, exitCode, hist, diffVars>>

\* <-stopped; return 0
CliDrained ==
    /\ cliPc = "draining"
    /\ "stopped" \in closed
    /\ cliPc' = "exited"
    /\ exitCode' = 0
    /\ UNCHANGED <<cfgVars, registry, regChanges, zone, consulVars, ns1Vars,
                   passVars, superVars, closed, sigPending, hist, diffVars>>

-----------------------------------------------------------------------------
(* catalog.Sync, the supervisor *)

\* Sync going on after a poll interval that does not parse
SyncParse_ignoreError ==
    /\ syncPc = "parse"
    /\ syncPc' = "setup"
    /\ UNCHANGED <<cfgVars, registry, regChanges, zone, consulVars, ns1Vars,
                   passVars, awaiting, closed, cliVars, hist, diffVars>>

\* time.ParseDuration(ns1PollInterval)
SyncParse ==
    /\ syncPc = "parse"
    /\ IF pollIntervalOK
       THEN syncPc' = "setup" /\ closed' = closed
       ELSE syncPc' = "done" /\ closed' = closed \cup {"stopped"}
    /\ UNCHANGED <<cfgVars, registry, regChanges, zone, consulVars, ns1Vars,
                   passVars, awaiting, cliVars, hist, diffVars>>

\* ns1.setupServiceZone(ns1Domain); the call fails when the zone is missing
\* and may fail for any other reason
SyncSetup(fails) ==
    /\ syncPc = "setup"
    /\ IF fails \/ ~zoneExists
       THEN syncPc' = "done" /\ closed' = closed \cup {"stopped"}
       ELSE syncPc' = "spawn" /\ closed' = closed
    /\ UNCHANGED <<cfgVars, registry, regChanges, zone, consulVars, ns1Vars,
                   passVars, awaiting, cliVars, hist, diffVars>>

\* the three go statements
SyncSpawn ==
    /\ syncPc = "spawn"
    /\ syncPc' = "select"
    /\ cPc' = "fetch"
    /\ nPc' = "fetch"
    /\ sPc' = "select"
    /\ hist' = [hist EXCEPT !.agentsStarted = TRUE]
    /\ UNCHANGED <<cfgVars, registry, regChanges, zone, cServices, cTrigger,
                   subsequentErrors, waitIndex, nServices, nTrigger, cTriggered,
                   nTriggered, todo, inflight, count, awaiting, closed,
                   cliVars, diffVars>>

\* what each case of the select closes, and then receives from, in order
selectCloses(ch) ==
    CASE ch = "stop" -> {"toNS1Stop", "fetchNS1Stop", "fetchConsulStop"}
      [] ch = "fetchNS1Stopped" -> {"toNS1Stop", "fetchConsulStop"}
      [] ch = "fetchConsulStopped" -> {"toNS1Stop", "fetchNS1Stop"}
      [] ch = "toNS1Stopped" -> {"fetchConsulStop", "fetchNS1Stop"}

\* the stop case not waiting for the reconciler
selectAwaits_noReconciler(ch) ==
    CASE ch = "stop" -> <<"fetchConsulStopped", "fetchNS1Stopped">>
      [] ch = "fetchNS1Stopped" -> <<"toNS1Stopped", "fetchConsulStopped">>
      [] ch = "fetchConsulStopped" -> <<"toNS1Stopped", "fetchNS1Stopped">>
      [] ch = "toNS1Stopped" -> <<"fetchConsulStopped", "fetchNS1Stopped">>

selectAwaits(ch) ==
    CASE ch = "stop" ->
            <<"fetchConsulStopped", "fetchNS1Stopped", "toNS1Stopped">>
      [] ch = "fetchNS1Stopped" -> <<"toNS1Stopped", "fetchConsulStopped">>
      [] ch = "fetchConsulStopped" -> <<"toNS1Stopped", "fetchNS1Stopped">>
      [] ch = "toNS1Stopped" -> <<"fetchConsulStopped", "fetchNS1Stopped">>

\* the select: one of the ready cases is taken
SyncSelect ==
    /\ syncPc = "select"
    /\ \E ch \in closed \cap {"stop", "fetchNS1Stopped", "fetchConsulStopped",
                              "toNS1Stopped"} :
          /\ closed' = closed \cup selectCloses(ch)
          /\ awaiting' = selectAwaits(ch)
    /\ syncPc' = "join"
    /\ UNCHANGED <<cfgVars, registry, regChanges, zone, consulVars, ns1Vars,
                   passVars, cliVars, hist, diffVars>>

\* the receives that follow, then the deferred close(stopped)
SyncJoin ==
    /\ syncPc = "join"
    /\ Head(awaiting) \in closed
    /\ awaiting' = Tail(awaiting)
    /\ IF Len(awaiting) = 1
       THEN syncPc' = "done" /\ closed' = closed \cup {"stopped"}
       ELSE syncPc' = "join" /\ closed' = closed
    /\ UNCHANGED <<cfgVars, registry, regChanges, zone, consulVars, ns1Vars,
                   passVars, cliVars, hist, diffVars>>

-----------------------------------------------------------------------------
(* consul.fetchIndefinitely, the Consul mirror *)

\* meta.LastIndex of the list-services call: the index of the catalog, which
\* grows with every change and is above the 1 the mirror starts from
LastIndex(changes) == changes + 2

\* c.fetch succeeds: the cache is replaced and the index kept
ConsulFetchOK(nodesFail, healthFail) ==
    /\ cPc = "fetch"
    /\ cServices' = consulFetch(registry, nodesFail, healthFail, dnsTTL)
    /\ subsequentErrors' = 0
    /\ waitIndex' = LastIndex(regChanges)
    /\ cPc' = "send"
    /\ hist' = [hist EXCEPT !.cRefreshed = TRUE, !.cFresh = TRUE,
                            !.failRun = 0]
    /\ UNCHANGED <<cfgVars, registry, regChanges, zone, cTrigger, ns1Vars,
                   passVars, superVars, closed, cliVars, diffVars>>

\* giving up one failure early (>= in place of >)
ConsulFetchFail_early ==
    /\ cPc = "fetch"
    /\ subsequentErrors' = subsequentErrors + 1
    /\ IF subsequentErrors' >= MaxSubsequentErrors
       THEN /\ cPc' = "done"
            /\ closed' = closed \cup {"fetchConsulStopped"}
            /\ hist' = [hist EXCEPT !.failRun = @ + 1, !.cGaveUp = TRUE]
       ELSE /\ cPc' = "check"
            /\ closed' = closed
            /\ hist' = [hist EXCEPT !.failRun = @ + 1]
    /\ UNCHANGED <<cfgVars, registry, regChanges, zone, cServices, cTrigger,
                   waitIndex, ns1Vars, passVars, superVars, cliVars, diffVars>>

\* the index c.fetch returns with an error, 0, kept for the next call
ConsulFetchFail_resetIndex ==
    /\ cPc = "fetch"
    /\ subsequentErrors' = subsequentErrors + 1
    /\ waitIndex' = 0
    /\ IF subsequentErrors' > MaxSubsequentErrors
       THEN /\ cPc' = "done"
            /\ closed' = closed \cup {"fetchConsulStopped"}
            /\ hist' = [hist EXCEPT !.failRun = @ + 1, !.cGaveUp = TRUE]
       ELSE /\ cPc' = "check"
            /\ closed' = closed
            /\ hist' = [hist EXCEPT !.failRun = @ + 1]
    /\ UNCHANGED <<cfgVars, registry, regChanges, zone, cServices, cTrigger,
                   ns1Vars, passVars, superVars, cliVars, diffVars>>

\* c.fetch fails (the list-services call failed): the error is counted and,
\* unless the mirror gives up, it sleeps and goes on to the stop check
ConsulFetchFail ==
    /\ cPc = "fetch"
    /\ subsequentErrors' = subsequentErrors + 1
    /\ IF subsequentErrors' > MaxSubsequentErrors
       THEN /\ cPc' = "done"
            /\ closed' = closed \cup {"fetchConsulStopped"}
            /\ hist' = [hist EXCEPT !.failRun = @ + 1, !.cGaveUp = TRUE]
       ELSE /\ cPc' = "check"
            /\ closed' = closed
            /\ hist' = [hist EXCEPT !.failRun = @ + 1]
    /\ UNCHANGED <<cfgVars, registry, regChanges, zone, cServices, cTrigger,
                   waitIndex, ns1Vars, passVars, superVars, cliVars, diffVars>>

\* c.trigger <- true: blocks while the channel holds a token
ConsulSend ==
    /\ cPc = "send"
    /\ cTrigger = 0
    /\ cTrigger' = 1
    /\ cPc' = "check"
    /\ UNCHANGED <<cfgVars, registry, regChanges, zone, cServices,
                   subsequentErrors, waitIndex, ns1Vars, passVars, superVars,
                   closed,
                   cliVars, hist, diffVars>>

\* select { case <-stop: return; default: }
ConsulCheckStop ==
    /\ cPc = "check"
    /\ IF "fetchConsulStop" \in closed
       THEN cPc' = "done" /\ closed' = closed \cup {"fetchConsulStopped"}
       ELSE cPc' = "fetch" /\ closed' = closed
    /\ UNCHANGED <<cfgVars, registry, regChanges, zone, cServices, cTrigger,
                   subsequentErrors, waitIndex, ns1Vars, passVars, superVars,
                   cliVars,
                   hist, diffVars>>

-----------------------------------------------------------------------------
(* ns1.fetchIndefinitely, the NS1 mirror *)

\* n.fetch succeeds: the cache is replaced
NS1FetchOK ==
    /\ nPc = "fetch"
    /\ zoneExists
    /\ \E listing \in ZoneListings(zone) :
          nServices' = transformZoneRecords(listing, ns1Prefix)
    /\ nPc' = "send"
    /\ hist' = [hist EXCEPT !.nRefreshed = TRUE, !.nFresh = TRUE,
                            !.nFailRun = 0]
    /\ UNCHANGED <<cfgVars, registry, regChanges, zone, nTrigger, consulVars,
                   passVars, superVars, closed, cliVars, diffVars>>

\* n.fetch fails
NS1FetchFail ==
    /\ nPc = "fetch"
    /\ nPc' = "wait"
    /\ hist' = [hist EXCEPT !.nFailRun =
                    IF hist.nRefreshed \/ @ > MaxSubsequentErrors
                    THEN @ ELSE @ + 1]
    /\ UNCHANGED <<cfgVars, registry, regChanges, zone, nServices, nTrigger,
                   consulVars, passVars, superVars, closed, cliVars, diffVars>>

\* n.trigger <- true: blocks while the channel holds a token
NS1Send ==
    /\ nPc = "send"
    /\ nTrigger = 0
    /\ nTrigger' = 1
    /\ nPc' = "wait"
    /\ UNCHANGED <<cfgVars, registry, regChanges, zone, nServices, consulVars,
                   passVars, superVars, closed, cliVars, hist, diffVars>>

\* select: case <-stop: return
NS1WaitStop ==
    /\ nPc = "wait"
    /\ "fetchNS1Stop" \in closed
    /\ nPc' = "done"
    /\ closed' = closed \cup {"fetchNS1Stopped"}
    /\ UNCHANGED <<cfgVars, registry, regChanges, zone, nServices, nTrigger,
                   consulVars, passVars, superVars, cliVars, hist, diffVars>>

\* select: case <-time.After(n.pollInterval): continue
NS1WaitTimer ==
    /\ nPc = "wait"
    /\ nPc' = "fetch"
    /\ UNCHANGED <<cfgVars, registry, regChanges, zone, nServices, nTrigger,
                   consulVars, passVars, superVars, closed, cliVars, hist,
                   diffVars>>

-----------------------------------------------------------------------------
(* consul.sync, the reconciler *)

\* a pass starting as soon as one flag is set
AfterSelect_either(cT, nT) ==
    /\ cTriggered' = cT
    /\ nTriggered' = nT
    /\ IF cT \/ nT
       THEN /\ todo' = onlyInFirst(cServices, nServices)
            /\ count' = 0
            /\ sPc' = "create"
       ELSE /\ UNCHANGED <<todo, count, sPc>>

\* what follows the select: a pass starts when both flags are set
AfterSelect(cT, nT) ==
    /\ cTriggered' = cT
    /\ nTriggered' = nT
    /\ IF cT /\ nT
       THEN /\ todo' = onlyInFirst(cServices, nServices)
            /\ count' = 0
            /\ sPc' = "create"
       ELSE /\ UNCHANGED <<todo, count, sPc>>

\* case <-c.trigger
SyncRecvConsul ==
    /\ sPc = "select"
    /\ cTrigger = 1
    /\ cTrigger' = 0
    /\ AfterSelect(TRUE, nTriggered)
    /\ UNCHANGED <<cfgVars, registry, regChanges, zone, cServices, cPc,
                   subsequentErrors, waitIndex, ns1Vars, inflight, superVars,
                   closed,
                   cliVars, hist, diffVars>>

\* case <-ns1.trigger
SyncRecvNS1 ==
    /\ sPc = "select"
    /\ nTrigger = 1
    /\ nTrigger' = 0
    /\ AfterSelect(cTriggered, TRUE)
    /\ UNCHANGED <<cfgVars, registry, regChanges, zone, nServices, nPc,
                   consulVars, inflight, superVars, closed, cliVars, hist,
                   diffVars>>

\* case <-stop: return
SyncStop ==
    /\ sPc = "select"
    /\ "toNS1Stop" \in closed
    /\ sPc' = "done"
    /\ closed' = closed \cup {"toNS1Stopped"}
    /\ UNCHANGED <<cfgVars, registry, regChanges, zone, consulVars, ns1Vars,
                   cTriggered, nTriggered, todo, inflight, count, superVars,
                   cliVars, hist, diffVars>>

\* one iteration of the loop of ns1.create: the two records of service k are
\* generated and their two workers started
CreateIteration(getAFails, getSRVFails) ==
    /\ sPc = "create"
    /\ \E k \in DOMAIN todo :
          LET s == todo[k]
              name == ns1Prefix \o k
              domain == name \o "." \o ZoneName
          IN  /\ \E nodeOrder \in Orders(DOMAIN s.nodes),
                    portOrders \in PortOrders(s.nodes) :
                    inflight' = inflight \cup
                        createCalls(k, s, ns1Prefix, dnsTTL,
                                    RecordsGet(zone, domain, "A", getAFails),
                                    RecordsGet(zone, domain, "SRV", getSRVFails),
                                    nodeOrder, portOrders)
              /\ todo' = [x \in (DOMAIN todo) \ {k} |-> todo[x]]
              /\ hist' = [hist EXCEPT !.upserted = @ \cup {k}]
    /\ UNCHANGED <<cfgVars, registry, regChanges, zone, consulVars, ns1Vars,
                   sPc, cTriggered, nTriggered, count, superVars, closed,
                   cliVars, diffVars>>

\* what the provider does with a write call
applyCall(z, call) ==
    CASE call.op = "create" -> RecordsCreate(z, call.rec)
      [] call.op = "update" -> RecordsUpdate(z, call.rec)
      [] call.op = "delete" -> RecordsDelete(z, call.rec.Domain, call.rec.Type)

\* the workers counting every call that returns
Worker_countAll(fails) ==
    /\ sPc \in {"create", "remove"}
    /\ \E call \in inflight :
          LET r == IF fails THEN [ok |-> FALSE, zone |-> zone]
                   ELSE applyCall(zone, call)
          IN  /\ zone' = r.zone
              /\ count' = count + 1
              /\ inflight' = inflight \ {call}
    /\ hist' = [hist EXCEPT !.writes = TRUE]
    /\ UNCHANGED <<cfgVars, registry, regChanges, consulVars, ns1Vars, sPc,
                   cTriggered, nTriggered, todo, superVars, closed, cliVars,
                   diffVars>>

\* upsertRecordWorker / removeRecordWorker: one write call returns; it may
\* fail on the way (fails), and the provider may refuse it
Worker(fails) ==
    /\ sPc \in {"create", "remove"}
    /\ \E call \in inflight :
          LET r == IF fails THEN [ok |-> FALSE, zone |-> zone]
                   ELSE applyCall(zone, call)
          IN  /\ zone' = r.zone
              /\ count' = IF r.ok THEN count + 1 ELSE count
              /\ inflight' = inflight \ {call}
    /\ hist' = [hist EXCEPT !.writes = TRUE]
    /\ UNCHANGED <<cfgVars, registry, regChanges, consulVars, ns1Vars, sPc,
                   cTriggered, nTriggered, todo, superVars, closed, cliVars,
                   diffVars>>

\* wg.Wait() of create returns; remove(serviceOnlyInFirst(...)) starts its
\* workers
CreateDone ==
    /\ sPc = "create"
    /\ DOMAIN todo = {}
    /\ inflight = {}
    /\ inflight' = removeCalls(serviceOnlyInFirst(nServices, cServices),
                               ns1Prefix)
    /\ count' = 0
    /\ sPc' = "remove"
    /\ UNCHANGED <<cfgVars, registry, regChanges, zone, consulVars, ns1Vars,
                   cTriggered, nTriggered, todo, superVars, closed, cliVars,
                   hist, diffVars>>

\* remove returning without waiting for its workers
RemoveDone_noWait ==
    /\ sPc = "remove"
    /\ cTriggered' = FALSE
    /\ nTriggered' = FALSE
    /\ sPc' = "select"
    /\ hist' = [hist EXCEPT !.cFresh = FALSE, !.nFresh = FALSE,
                            !.upserted = {}]
    /\ UNCHANGED <<cfgVars, registry, regChanges, zone, consulVars, ns1Vars,
                   todo, inflight, count, superVars, closed, cliVars,
                   diffVars>>

\* wg.Wait() of remove returns; the flags are cleared
RemoveDone ==
    /\ sPc = "remove"
    /\ inflight = {}
    /\ cTriggered' = FALSE
    /\ nTriggered' = FALSE
    /\ sPc' = "select"
    /\ hist' = [hist EXCEPT !.cFresh = FALSE, !.nFresh = FALSE,
                            !.upserted = {}]
    /\ UNCHANGED <<cfgVars, registry, regChanges, zone, consulVars, ns1Vars,
                   todo, inflight, count, superVars, closed, cliVars,
                   diffVars>>

-----------------------------------------------------------------------------
(* The program *)

\* The run of the program under a fixed catalog: every remote read may fail,
\* the user may interrupt; write calls fail only where the provider refuses
Next ==
    \/ Sigint
    \/ CliStopped
    \/ CliInterrupted
    \/ CliDrained
    \/ SyncParse
    \/ \E fails \in BOOLEAN : SyncSetup(fails)
    \/ SyncSpawn
    \/ SyncSelect
    \/ SyncJoin
    \/ ConsulFetchOK({}, {})
    \/ ConsulFetchFail
    \/ ConsulSend
    \/ ConsulCheckStop
    \/ NS1FetchOK
    \/ NS1FetchFail
    \/ NS1Send
    \/ NS1WaitStop
    \/ NS1WaitTimer
    \/ SyncRecvConsul
    \/ SyncRecvNS1
    \/ SyncStop
    \/ CreateIteration(FALSE, FALSE)
    \/ Worker(FALSE)
    \/ CreateDone
    \/ RemoveDone

Spec == Init /\ [][Next]_vars

-----------------------------------------------------------------------------
(* Properties of the run *)

PassStarts == sPc = "select" /\ sPc' = "create"

ShutdownBegun ==
    closed \cap {"stop", "fetchConsulStopped", "fetchNS1Stopped",
                 "toNS1Stopped"} # {}

AgentsStopped ==
    {"fetchConsulStopped", "fetchNS1Stopped", "toNS1Stopped"} \subseteq closed

\* C4: whenever a pass starts, each of the two mirrors has replaced its cache
\* since the end of the previous pass
C4_FreshSincePreviousPass ==
    [][PassStarts => (hist.cFresh /\ hist.nFresh)]_vars

\* C5: no pass is in progress and no write call has been made unless each
\* mirror has completed a successful refresh
C5_NoPrematurePass ==
    (sPc \in {"create", "remove"} \/ hist.writes)
        => (hist.cRefreshed /\ hist.nRefreshed)

C5_Witness == hist.writes /\ hist.cRefreshed /\ hist.nRefreshed

\* C6: once shutdown has begun the run cannot come to rest before Sync has
\* closed the top-level stopped channel
C6_ShutdownCompletes ==
    (ShutdownBegun /\ ~ENABLED Next) => "stopped" \in closed

\* C7: when the top-level stopped channel is closed after the agents were
\* started, all three agents have returned and closed their stopped channels
C7_AllAgentsStopped ==
    ("stopped" \in closed /\ hist.agentsStarted)
        => (AgentsStopped /\ cPc = "done" /\ nPc = "done" /\ sPc = "done")

C7_Witness == "stopped" \in closed /\ hist.agentsStarted

\* C8: the Consul mirror returns without having been told to stop exactly
\* when 11 fetches in a row have failed, and then offers no token; a
\* successful fetch resets the count
C8_Budget ==
    /\ subsequentErrors = hist.failRun
    /\ ("fetchConsulStopped" \in closed /\ "fetchConsulStop" \notin closed)
          => hist.failRun = 11
    /\ hist.cGaveUp => hist.failRun = 11
    /\ hist.failRun >= 11 => (cPc = "done" /\ "fetchConsulStopped" \in closed)
    /\ cPc = "send" => subsequentErrors = 0

C8_FailureBudget ==
    /\ []C8_Budget
    /\ [][(~hist.cGaveUp /\ hist'.cGaveUp) =>
             (cTrigger' = cTrigger /\ cServices' = cServices)]_vars

C8_Witness == hist.cGaveUp /\ "fetchConsulStop" \notin closed

\* C9: once 11 zone fetches in a row have failed the NS1 mirror has returned
\* and closed its stopped channel
C9_DNSMirrorBudget ==
    hist.nFailRun > MaxSubsequentErrors
        => (nPc = "done" /\ "fetchNS1Stopped" \in closed)

StartupFailed == syncPc = "done" /\ ~hist.agentsStarted

NothingStarted ==
    /\ ~hist.agentsStarted /\ cPc = "idle" /\ nPc = "idle" /\ sPc = "idle"
    /\ ~hist.writes /\ inflight = {}

-----------------------------------------------------------------------------
(* The diff functions applied to arbitrary pairs of snapshots *)

StdSrv(addr, w) ==
    [priority |-> 1, weight |-> w, port |-> 80, address |-> addr]

\* the instances at one address: with or without an A answer; with no SRV
\* answer, the usual one, or one of another weight
NodeValues(addr) ==
    {[aRecAnswer |-> a, srvRecAnswers |-> m] :
        a \in {"", addr},
        m \in {EmptyMap, [p \in {80} |-> StdSrv(addr, 1)],
               [p \in {80} |-> StdSrv(addr, 2)]}}

NodeMaps ==
    LET first == {EmptyMap}
                 \cup {[h \in {"10.0.0.1"} |-> n] : n \in NodeValues("10.0.0.1")}
        second == [aRecAnswer |-> "10.0.0.2",
                   srvRecAnswers |-> [p \in {80} |-> StdSrv("10.0.0.2", 1)]]
    IN  first \cup {Put(m, "10.0.0.2", second) : m \in first}

TTLPairs ==
    {[aRecTTL |-> 60, srvRecTTL |-> 60], [aRecTTL |-> 60, srvRecTTL |-> 30],
     [aRecTTL |-> 0, srvRecTTL |-> 0]}

\* a service as the Consul mirror builds it, as the NS1 mirror builds it, and
\* one carrying identifiers of both kinds
ServiceValues(k) ==
    {[id |-> i.id, name |-> k, nodes |-> n, healths |-> i.healths, ttls |-> t,
      ns1IDs |-> i.ns1IDs, consulID |-> i.id] :
        n \in NodeMaps, t \in TTLPairs,
        i \in {[id |-> k, healths |-> [x \in {"web"} |-> passing],
                ns1IDs |-> NoIDs],
               [id |-> "", healths |-> EmptyMap,
                ns1IDs |-> [aRecID |-> "r1", srvRecID |-> "r2"]],
               [id |-> k, healths |-> EmptyMap,
                ns1IDs |-> [aRecID |-> "r3", srvRecID |-> ""]]}}

OtherService ==
    [ZeroService EXCEPT !.id = "s2", !.name = "s2",
                        !.ttls = [aRecTTL |-> 60, srvRecTTL |-> 60]]

\* snapshots: s1 absent or any service value, s2 absent or a fixed service
Snapshots ==
    LET withS1 == {EmptyMap} \cup {[k \in {"s1"} |-> v] : v \in ServiceValues("s1")}
    IN  withS1 \cup {Put(m, "s2", OtherService) : m \in withS1}

InitDiff ==
    /\ InitProgram({""}, {DefaultTTL}, {EmptyMap}, {EmptyMap})
    /\ pollIntervalOK
    /\ zoneExists
    /\ dA \in Snapshots
    /\ dB \in Snapshots
    /\ dOut = EmptyMap
    /\ dPc = "input"

programVars ==
    <<cfgVars, registry, regChanges, zone, consulVars, ns1Vars, passVars,
      superVars, closed, cliVars, hist>>

\* upsert := onlyInFirst(c.getServices(), ns1.getServices())
DiffUpsert ==
    /\ dPc = "input"
    /\ dOut' = onlyInFirst(dA, dB)
    /\ dPc' = "upsert"
    /\ UNCHANGED <<programVars, dA, dB>>

\* remove := serviceOnlyInFirst(ns1.getServices(), c.getServices())
DiffRemove ==
    /\ dPc = "input"
    /\ dOut' = serviceOnlyInFirst(dB, dA)
    /\ dPc' = "remove"
    /\ UNCHANGED <<programVars, dA, dB>>

NextDiff == DiffUpsert \/ DiffRemove

SpecDiff == InitDiff /\ [][NextDiff]_vars

\* C1: the keys of the upsert map are the services of D that O lacks or
\* whose instances (compared as maps) or TTL pairs differ from O's
C1_UpsertSet ==
    dPc = "upsert" =>
        DOMAIN dOut = {k \in DOMAIN dA :
                          \/ k \notin DOMAIN dB
                          \/ dA[k].nodes # dB[k].nodes
                          \/ dA[k].ttls # dB[k].ttls}

\* a service of two instances that differs from its DNS counterpart in id,
\* consulID, healths and record IDs only, and is left out of the upsert map
C1_Witness ==
    /\ dPc = "upsert"
    /\ "s1" \in DOMAIN dA /\ "s1" \in DOMAIN dB
    /\ dA["s1"].id # dB["s1"].id
    /\ dA["s1"].ns1IDs # dB["s1"].ns1IDs
    /\ dA["s1"].healths # dB["s1"].healths
    /\ len(dA["s1"].nodes) = 2
    /\ "s1" \notin DOMAIN dOut
    /\ "s2" \in DOMAIN dOut

\* C2: the deletion map holds exactly the services of O that D lacks
C2_DeletionSet ==
    dPc = "remove" =>
        /\ DOMAIN dOut = (DOMAIN dB) \ (DOMAIN dA)
        /\ \A k \in DOMAIN dOut : dOut[k] = dB[k]

\* a service in both snapshots with different instances, TTLs and record
\* IDs, not deleted, while another service is
C2_Witness ==
    /\ dPc = "remove"
    /\ "s1" \in DOMAIN dA /\ "s1" \in DOMAIN dB
    /\ dA["s1"].nodes # dB["s1"].nodes
    /\ dA["s1"].ttls # dB["s1"].ttls
    /\ dA["s1"].ns1IDs # dB["s1"].ns1IDs
    /\ "s1" \notin DOMAIN dOut
    /\ "s2" \in DOMAIN dOut

-----------------------------------------------------------------------------
(* The run without faults or interrupts, under fair scheduling *)

\* the prefix of the run without faults (-ns1-prefix)
ServicePrefix == "svc-"

InitConv ==
    /\ InitWith({ServicePrefix}, {DefaultTTL}, Catalogs, {ForeignZone})
    /\ pollIntervalOK
    /\ zoneExists

ConsulStep ==
    ConsulFetchOK({}, {}) \/ ConsulSend \/ ConsulCheckStop

NS1Step ==
    NS1FetchOK \/ NS1Send \/ NS1WaitTimer

ReconcilerStep ==
    \/ SyncRecvConsul
    \/ SyncRecvNS1
    \/ CreateIteration(FALSE, FALSE)
    \/ CreateDone
    \/ RemoveDone

SupervisorStep ==
    SyncParse \/ SyncSetup(FALSE) \/ SyncSpawn

NextConv ==
    \/ RegistryChange
    \/ SupervisorStep
    \/ ConsulStep
    \/ NS1Step
    \/ ReconcilerStep
    \/ Worker(FALSE)

\* every goroutine that can take a step eventually takes one, and a select
\* does not pass over a case that stays ready
FairConv ==
    /\ WF_vars(SupervisorStep)
    /\ WF_vars(ConsulStep)
    /\ WF_vars(NS1Step)
    /\ WF_vars(ReconcilerStep)
    /\ WF_vars(SyncRecvConsul)
    /\ WF_vars(SyncRecvNS1)
    /\ WF_vars(Worker(FALSE))

SpecConv == InitConv /\ [][NextConv]_vars /\ FairConv

\* the address a catalog entry stands for
InstanceAddress(n) ==
    IF n.ServiceAddress = "" THEN n.Address ELSE n.ServiceAddress

RangeOf(f) == {f[i] : i \in DOMAIN f}

\* the zone holds the A and the SRV record of every catalog service, with
\* the answers of its instances, and no other A or SRV record
ZoneConverged ==
    /\ \A k \in DOMAIN registry :
          LET d == (ns1Prefix \o k) \o "." \o ZoneName
              inst == RangeOf(registry[k].nodes)
          IN  /\ <<d, "A">> \in DOMAIN zone
              /\ <<d, "SRV">> \in DOMAIN zone
              /\ RangeOf(zone[<<d, "A">>].Answers) =
                     {<<InstanceAddress(n)>> : n \in inst}
              /\ RangeOf(zone[<<d, "SRV">>].Answers) =
                     {<<"1", "1", FormatInt(n.ServicePort), InstanceAddress(n)>> :
                         n \in inst}
    /\ \A key \in DOMAIN zone :
          key[2] \in {"A", "SRV"} =>
              \E k \in DOMAIN registry :
                  key[1] = (ns1Prefix \o k) \o "." \o ZoneName

\* the reconciler has no write call to make or under way
NoWrites == DOMAIN todo = {} /\ inflight = {}

\* C3: without faults and under fair scheduling the zone comes to hold the
\* records of the catalog's services and no other A or SRV record, and from
\* then on the passes issue no write call
C3_Convergence == <>[](ZoneConverged /\ NoWrites)

-----------------------------------------------------------------------------
(* ns1.create applied to arbitrary upsert sets *)

\* the records of service k as an earlier pass and an operator left them
ExistingZone(prefix, k) ==
    LET d == (prefix \o k) \o "." \o ZoneName
    IN  [key \in {<<d, "A">>, <<d, "SRV">>} |->
            [ID |-> RecordID(d, key[2]), TTL |-> 3600,
             Answers |-> << <<"10.0.0.7">> >>, Meta |-> "custom"]]

\* a service named as the zone, as the Consul mirror publishes it and as
\* onlyInFirst hands it on when the zone has records for it
ApexServices ==
    {[ZeroService EXCEPT
        !.id = ZoneName, !.name = ZoneName, !.consulID = ZoneName,
        !.nodes = [h \in {"10.0.0.1"} |->
                      [aRecAnswer |-> "10.0.0.1",
                       srvRecAnswers |-> [p \in {80} |-> StdSrv("10.0.0.1", 1)]]],
        !.ttls = [aRecTTL |-> DefaultTTL, srvRecTTL |-> DefaultTTL],
        !.ns1IDs = ids] :
     ids \in {NoIDs, [aRecID |-> "r1", srvRecID |-> "r2"]}}

\* upsert sets holding a service named as the zone
ApexSnapshots ==
    LET only == {[k \in {ZoneName} |-> v] : v \in ApexServices}
    IN  only \cup {Put(m, "s2", OtherService) : m \in only}

\* create(dA) is about to run its loop
InitCreate ==
    /\ ns1Prefix \in {"", ServicePrefix}
    /\ dnsTTL = DefaultTTL
    /\ pollIntervalOK = TRUE
    /\ registry = EmptyMap
    /\ regChanges = 0
    /\ zoneExists = TRUE
    /\ zone \in {EmptyMap, ExistingZone(ns1Prefix, "s1")}
    /\ cServices = EmptyMap
    /\ nServices = EmptyMap
    /\ cTrigger = 0
    /\ nTrigger = 0
    /\ cPc = "fetch"
    /\ subsequentErrors = 0
    /\ waitIndex = 1
    /\ nPc = "fetch"
    /\ sPc = "create"
    /\ cTriggered = TRUE
    /\ nTriggered = TRUE
    /\ dA \in Snapshots \cup ApexSnapshots
    /\ todo = dA
    /\ inflight = {}
    /\ count = 0
    /\ syncPc = "select"
    /\ awaiting = <<>>
    /\ closed = {}
    /\ cliPc = "select"
    /\ sigPending = "none"
    /\ exitCode = -1
    /\ hist = [NoHistory EXCEPT !.agentsStarted = TRUE, !.cRefreshed = TRUE,
                                !.nRefreshed = TRUE]
    /\ dB = EmptyMap
    /\ dOut = EmptyMap
    /\ dPc = "idle"

\* the loop of create, its workers not yet run; every Records.Get may fail
NextCreate ==
    \E getAFails, getSRVFails \in BOOLEAN : CreateIteration(getAFails, getSRVFails)

SpecCreate == InitCreate /\ [][NextCreate]_vars

\* the services create() has iterated over
Iterated == (DOMAIN dA) \ (DOMAIN todo)

\* the write calls started for type t of the service under key k
CallsFor(k, t) ==
    {c \in inflight :
        c.rec.Domain = (ns1Prefix \o k) \o "." \o ZoneName /\ c.rec.Type = t}

RecordIDOf(s, t) == IF t = "A" THEN s.ns1IDs.aRecID ELSE s.ns1IDs.srvRecID

\* C11: for every service create() has iterated over there is exactly one
\* write call per record type, a Create when the payload has no ID for the
\* type and an Update when it has one; there is no other call
C11_OneCallPerType ==
    /\ \A k \in Iterated : \A t \in {"A", "SRV"} :
          /\ Cardinality(CallsFor(k, t)) = 1
          /\ \A c \in CallsFor(k, t) :
                c.op = (IF RecordIDOf(dA[k], t) = "" THEN "create" ELSE "update")
    /\ Cardinality(inflight) = 2 * Cardinality(Iterated)

\* an Update of a fresh record: the payload has the A record's ID, the record
\* is in the zone and fetching it failed; the SRV write is a Create
C11_Witness ==
    /\ "s1" \in Iterated
    /\ dA["s1"].ns1IDs.aRecID # ""
    /\ dA["s1"].ns1IDs.srvRecID = ""
    /\ zone # EmptyMap
    /\ \E c \in CallsFor("s1", "A") : c.op = "update" /\ c.rec.Meta = "default"
    /\ \E c \in CallsFor("s1", "SRV") : c.op = "create"

\* the SRV ports of the instances of a service, each with its instance
PortsOf(s) ==
    UNION {{<<h, p>> : p \in DOMAIN s.nodes[h].srvRecAnswers} :
              h \in DOMAIN s.nodes}

\* C12: the A record written has one answer per instance with an A answer,
\* the SRV record one four-field answer per SRV answer of every instance,
\* and both carry the configured TTL
C12_AnswersAndTTL ==
    \A k \in Iterated :
        LET s == dA[k]
            withA == {h \in DOMAIN s.nodes : s.nodes[h].aRecAnswer # ""}
        IN  /\ \A c \in CallsFor(k, "A") :
                  /\ Len(c.rec.Answers) = Cardinality(withA)
                  /\ RangeOf(c.rec.Answers) =
                         {<<s.nodes[h].aRecAnswer>> : h \in withA}
                  /\ c.rec.TTL = dnsTTL
            /\ \A c \in CallsFor(k, "SRV") :
                  /\ Len(c.rec.Answers) = Cardinality(PortsOf(s))
                  /\ RangeOf(c.rec.Answers) =
                         {<<FormatInt(s.nodes[hp[1]].srvRecAnswers[hp[2]].priority),
                            FormatInt(s.nodes[hp[1]].srvRecAnswers[hp[2]].weight),
                            FormatInt(s.nodes[hp[1]].srvRecAnswers[hp[2]].port),
                            s.nodes[hp[1]].srvRecAnswers[hp[2]].address>> :
                          hp \in PortsOf(s)}
                  /\ c.rec.TTL = dnsTTL

\* a service of two instances, one without an A answer, updated from the
\* fetched record, and a service without instances
C12_Witness ==
    /\ DOMAIN todo = {}
    /\ DOMAIN dA = {"s1", "s2"}
    /\ len(dA["s1"].nodes) = 2
    /\ dA["s1"].nodes["10.0.0.1"].aRecAnswer = ""
    /\ \E c \in CallsFor("s1", "A") :
          c.op = "update" /\ c.rec.Meta = "custom" /\ Len(c.rec.Answers) = 1
    /\ \E c \in CallsFor("s1", "SRV") : Len(c.rec.Answers) = 2
    /\ \E c \in CallsFor("s2", "A") : Len(c.rec.Answers) = 0
    /\ \E c \in CallsFor("s2", "SRV") : Len(c.rec.Answers) = 0

-----------------------------------------------------------------------------
(* More on the diff functions *)

\* C13: in the payload of a service present in both maps each record ID is
\* empty only if it is empty in both, the ID of D wins over the ID of O,
\* and the instances are those of D
C13_IDBackfill ==
    dPc = "upsert" =>
        \A k \in (DOMAIN dOut) \cap (DOMAIN dB) : \A t \in {"A", "SRV"} :
            /\ RecordIDOf(dOut[k], t) =
                   (IF RecordIDOf(dA[k], t) # "" THEN RecordIDOf(dA[k], t)
                    ELSE RecordIDOf(dB[k], t))
            /\ (RecordIDOf(dOut[k], t) # "" <=>
                   (RecordIDOf(dA[k], t) # "" \/ RecordIDOf(dB[k], t) # ""))
            /\ dOut[k].nodes = dA[k].nodes

\* a payload whose A record ID is that of D, different from that of O, and
\* whose SRV record ID is backfilled from O
C13_Witness ==
    /\ dPc = "upsert"
    /\ "s1" \in (DOMAIN dOut) \cap (DOMAIN dB)
    /\ dA["s1"].ns1IDs = [aRecID |-> "r3", srvRecID |-> ""]
    /\ dB["s1"].ns1IDs = [aRecID |-> "r1", srvRecID |-> "r2"]
    /\ dOut["s1"].ns1IDs = [aRecID |-> "r3", srvRecID |-> "r2"]
    /\ len(dOut["s1"].nodes) = 2

\* the maps hold the same services with equal instances and TTLs
SameContent(D, O) ==
    /\ DOMAIN D = DOMAIN O
    /\ \A k \in DOMAIN D :
          /\ nodesAreEqual(D[k].nodes, O[k].nodes)
          /\ D[k].ttls = O[k].ttls

\* C17: for maps of the same content the upsert map and the deletion map
\* are empty, so create() has no service to iterate over and remove()
\* starts no call
C17_Idempotent ==
    (dPc \in {"upsert", "remove"} /\ SameContent(dA, dB)) =>
        /\ DOMAIN dOut = {}
        /\ removeCalls(dOut, ns1Prefix) = {}

\* two maps of the same content that differ in ids, healths and record IDs
C17_Witness ==
    /\ dPc = "upsert"
    /\ SameContent(dA, dB)
    /\ DOMAIN dA = {"s1", "s2"}
    /\ len(dA["s1"].nodes) = 2
    /\ dA["s1"].ns1IDs # dB["s1"].ns1IDs
    /\ dA["s1"].id # dB["s1"].id
    /\ dOut = EmptyMap

-----------------------------------------------------------------------------
(* nodesAreEqual applied to arbitrary pairs of instance maps *)

SrvMaps(addr) ==
    {EmptyMap,
     [p \in {80} |-> StdSrv(addr, 1)],
     [p \in {80} |-> StdSrv(addr, 2)],
     [p \in {80} |-> StdSrv("10.0.0.3", 1)],
     [p \in {5} |-> [StdSrv(addr, 1) EXCEPT !.port = 5]],
     [p \in {5, 80} |-> [StdSrv(addr, 1) EXCEPT !.port = p]]}

InstanceMaps ==
    LET values(addr) == {[aRecAnswer |-> a, srvRecAnswers |-> m] :
                            a \in {"", addr}, m \in SrvMaps(addr)}
        first == {EmptyMap}
                 \cup {[h \in {"10.0.0.1"} |-> n] : n \in values("10.0.0.1")}
    IN  first \cup {Put(m, "10.0.0.2", n) : m \in first, n \in values("10.0.0.2")}

InitNodes ==
    /\ InitProgram({""}, {DefaultTTL}, {EmptyMap}, {EmptyMap})
    /\ pollIntervalOK
    /\ zoneExists
    /\ dA \in InstanceMaps
    /\ dB \in InstanceMaps
    /\ dOut = EmptyMap
    /\ dPc = "input"

\* nodesAreEqual called both ways round
CompareNodes ==
    /\ dPc = "input"
    /\ dOut' = [forward |-> nodesAreEqual(dA, dB),
                backward |-> nodesAreEqual(dB, dA)]
    /\ dPc' = "compared"
    /\ UNCHANGED <<programVars, dA, dB>>

SpecNodes == InitNodes /\ [][CompareNodes]_vars

\* the same addresses, and at each the same A answer and the same SRV
\* answers, port by port and field by field
SameInstances(a, b) ==
    /\ DOMAIN a = DOMAIN b
    /\ \A h \in DOMAIN a :
          /\ a[h].aRecAnswer = b[h].aRecAnswer
          /\ DOMAIN a[h].srvRecAnswers = DOMAIN b[h].srvRecAnswers
          /\ \A p \in DOMAIN a[h].srvRecAnswers :
                LET x == a[h].srvRecAnswers[p]
                    y == b[h].srvRecAnswers[p]
                IN  /\ x.priority = y.priority
                    /\ x.weight = y.weight
                    /\ x.port = y.port
                    /\ x.address = y.address

\* C18: nodesAreEqual gives the same result both ways round, and the result
\* is whether the two maps hold the same instances
C18_StructuralSymmetric ==
    dPc = "compared" =>
        /\ dOut.forward = dOut.backward
        /\ dOut.forward = SameInstances(dA, dB)

\* the second map holds the first and one instance more: unequal both ways
C18_Witness ==
    /\ dPc = "compared"
    /\ len(dA) = 1 /\ len(dB) = 2
    /\ dB["10.0.0.1"] = dA["10.0.0.1"]
    /\ DOMAIN dA["10.0.0.1"].srvRecAnswers = {5, 80}
    /\ ~dOut.forward /\ ~dOut.backward

-----------------------------------------------------------------------------
(* More properties of the run *)

\* the services of the Consul mirror's cache have no record IDs
C14_NoIDs == \A k \in DOMAIN cServices : cServices[k].ns1IDs = NoIDs

\* C14: the services of the Consul mirror's cache have no record IDs; a
\* pass gives a service the NS1 mirror's cache lacks a payload without
\* record IDs, and the calls started for a payload without record IDs are
\* Create calls
C14_NewServicesCreated ==
    /\ []C14_NoIDs
    /\ [][PassStarts =>
            \A k \in DOMAIN todo' :
                k \notin DOMAIN nServices => todo'[k].ns1IDs = NoIDs]_vars
    /\ [][\A k \in (DOMAIN todo) \ (DOMAIN todo') :
            todo[k].ns1IDs = NoIDs =>
                \A c \in inflight' \ inflight : c.op = "create"]_vars

\* the two Create calls of a service the NS1 mirror has not seen
C14_Witness ==
    /\ sPc = "create"
    /\ "s1" \in DOMAIN cServices
    /\ "s1" \notin DOMAIN nServices
    /\ {[t |-> c.rec.Type, op |-> c.op] :
           c \in {x \in inflight : x.rec.Domain = "s1." \o ZoneName}}
          = {[t |-> "A", op |-> "create"], [t |-> "SRV", op |-> "create"]}

-----------------------------------------------------------------------------
(* Two passes in a row over an unchanged Consul snapshot: the mirrors        *)
(* refresh, a pass runs to its end, the NS1 mirror refreshes, a second       *)
(* pass runs.  Every call of the NS1 API is answered.                        *)

CatalogOf(cnodes) ==
    [nodes |-> cnodes, checks |-> <<[Status |-> "passing", ServiceID |-> "web"]>>]

\* catalogs of no, one and two services; instances at one and at two
\* addresses, on two ports of one address, with a service address, and a
\* service left without instances
FixCatalogs ==
    {EmptyMap,
     CatalogS1,
     [s1 |-> CatalogOf(<<CatalogNode("10.0.0.1", 80), CatalogNode("10.0.0.2", 80)>>)],
     [s1 |-> CatalogOf(<<CatalogNode("10.0.0.1", 80), CatalogNode("10.0.0.1", 5)>>)],
     [s1 |-> CatalogOf(<<[CatalogNode("10.0.0.1", 80) EXCEPT
                              !.ServiceAddress = "10.0.0.2"]>>)],
     [s1 |-> CatalogOf(<<>>)],
     [s1 |-> CatalogOf(<<CatalogNode("10.0.0.1", 80)>>),
      s2 |-> CatalogOf(<<CatalogNode("10.0.0.2", 5)>>)]}

\* the prefixes of the runs of one or two passes
Prefixes == {"", ServicePrefix}

\* the three agents are running and no mirror has refreshed yet; ttl is the
\* configured TTL and zones[p] are the contents the zone may have under
\* prefix p
InitPassWith(ttl, zones) ==
    /\ ns1Prefix \in Prefixes
    /\ dnsTTL = ttl
    /\ pollIntervalOK = TRUE
    /\ registry \in FixCatalogs
    /\ regChanges = 0
    /\ zoneExists = TRUE
    /\ zone \in zones[ns1Prefix]
    /\ cServices = EmptyMap
    /\ nServices = EmptyMap
    /\ cTrigger = 0
    /\ nTrigger = 0
    /\ cPc = "fetch"
    /\ subsequentErrors = 0
    /\ waitIndex = 1
    /\ nPc = "fetch"
    /\ sPc = "select"
    /\ cTriggered = FALSE
    /\ nTriggered = FALSE
    /\ todo = EmptyMap
    /\ inflight = {}
    /\ count = 0
    /\ syncPc = "select"
    /\ awaiting = <<>>
    /\ closed = {}
    /\ cliPc = "select"
    /\ sigPending = "none"
    /\ exitCode = -1
    /\ hist = [NoHistory EXCEPT !.agentsStarted = TRUE]
    /\ dA = EmptyMap
    /\ dB = EmptyMap
    /\ dOut = EmptyMap
    /\ dPc = "fetch"

\* the same under the default TTL
InitPass(zones) == InitPassWith(DefaultTTL, zones)

\* zones whose records all carry the prefix
FixZones(prefix) ==
    {EmptyMap, ExistingZone(prefix, "s1"), ExistingZone(prefix, "old")}

InitFix == InitPass([p \in Prefixes |-> FixZones(p)])

\* both mirrors refresh and the reconciler, having received both tokens,
\* starts the first pass; nodesFail and healthFail are the services whose
\* fetchNodes and fetchHealth calls fail
FixStart(nodesFail, healthFail) ==
    /\ dPc = "fetch"
    /\ sPc = "select"
    /\ cServices' = consulFetch(registry, nodesFail, healthFail, dnsTTL)
    /\ waitIndex' = LastIndex(regChanges)
    /\ \E listing \in ZoneListings(zone) :
          nServices' = transformZoneRecords(listing, ns1Prefix)
    /\ cTriggered' = TRUE
    /\ nTriggered' = TRUE
    /\ todo' = onlyInFirst(cServices', nServices')
    /\ count' = 0
    /\ sPc' = "create"
    /\ hist' = [hist EXCEPT !.cRefreshed = TRUE, !.cFresh = TRUE,
                            !.nRefreshed = TRUE, !.nFresh = TRUE]
    /\ dPc' = "pass1"
    /\ UNCHANGED <<cfgVars, registry, regChanges, zone, cTrigger, cPc,
                   subsequentErrors, nTrigger, nPc, inflight, superVars,
                   closed, cliVars, dA, dB, dOut>>

\* the first pass over, the NS1 mirror refreshes, the Consul mirror sends a
\* token for the same snapshot, and the second pass starts
FixAgain ==
    /\ dPc = "pass1"
    /\ sPc = "select"
    /\ \E listing \in ZoneListings(zone) :
          nServices' = transformZoneRecords(listing, ns1Prefix)
    /\ cTriggered' = TRUE
    /\ nTriggered' = TRUE
    /\ todo' = onlyInFirst(cServices, nServices')
    /\ count' = 0
    /\ sPc' = "create"
    /\ hist' = [hist EXCEPT !.cFresh = TRUE, !.nFresh = TRUE]
    /\ dPc' = "pass2"
    /\ UNCHANGED <<cfgVars, registry, regChanges, zone, consulVars, nTrigger,
                   nPc, inflight, superVars, closed, cliVars, dA, dB, dOut>>

\* any of the per-service calls of consul.fetch may fail
FixStartAny ==
    \E nodesFail \in SUBSET DOMAIN registry, healthFail \in {{}, DOMAIN registry} :
        FixStart(nodesFail, healthFail)

NextFix ==
    \/ FixStartAny
    \/ FixAgain
    \/ CreateIteration(FALSE, FALSE)
    \/ Worker(FALSE)
    \/ CreateDone
    \/ RemoveDone

SpecFix == InitFix /\ [][NextFix]_vars

\* C15: the second pass has no service to upsert and starts no call
C15_SecondPassQuiet ==
    dPc = "pass2" => (DOMAIN todo = {} /\ inflight = {})

\* C16: the NS1 mirror's snapshot of the zone the first pass left holds,
\* for every service of the Consul snapshot, a service of the same name,
\* equal instances and the same TTLs
C16_RoundTrip ==
    dPc = "pass2" =>
        \A k \in DOMAIN cServices :
            /\ k \in DOMAIN nServices
            /\ nServices[k].name = cServices[k].name
            /\ nodesAreEqual(cServices[k].nodes, nServices[k].nodes)
            /\ nServices[k].ttls = cServices[k].ttls

-----------------------------------------------------------------------------
(* The trigger channels and the passes *)

\* C19: a mirror that has a token to offer can go on at once, whether or
\* not its trigger channel holds a token
C19_SendNeverBlocks ==
    /\ cPc = "send" => ENABLED ConsulSend
    /\ nPc = "send" => ENABLED NS1Send

\* C20: no write call is under way unless a pass is in progress, and while
\* remove() runs the calls of create() have all returned
C20_PassesSerialized ==
    /\ sPc \notin {"create", "remove"} => inflight = {}
    /\ sPc = "remove" => \A c \in inflight : c.op = "delete"

\* write calls of a later pass under way: both records of s1 are in the
\* zone, written by an earlier pass
C20_Witness ==
    /\ registry = CatalogS1
    /\ DOMAIN zone = {<<"s1." \o ZoneName, "A">>, <<"s1." \o ZoneName, "SRV">>}
    /\ sPc = "create"
    /\ inflight # {}

-----------------------------------------------------------------------------
(* One pass whose write calls may fail.  The mirrors refresh, the pass      *)
(* runs: every Records.Get and every write call may return an error.       *)

\* the zones of the two-pass runs, a zone holding the records of two
\* services, and a zone holding a record without the prefix
WriteZones(prefix) ==
    FixZones(prefix)
        \cup {ExistingZone(prefix, "s1") @@ ExistingZone(prefix, "old"),
              ForeignZone}

InitWrite == InitPass([p \in Prefixes |-> WriteZones(p)])

CreateIterationAny ==
    \E getAFails, getSRVFails \in BOOLEAN : CreateIteration(getAFails, getSRVFails)

WorkerAny == \E fails \in BOOLEAN : Worker(fails)

NextWrite ==
    \/ FixStartAny
    \/ CreateIterationAny
    \/ WorkerAny
    \/ CreateDone
    \/ RemoveDone

SpecWrite == InitWrite /\ [][NextWrite]_vars

\* the upsert set of the pass (the caches do not change during the pass)
Upserts == onlyInFirst(cServices, nServices)

\* the records of the zone the create() in progress has written: the
\* records found in the zone before the pass have another TTL
Written == {key \in DOMAIN zone : zone[key].TTL = dnsTTL}

\* a write call returns
WriteReturns == inflight' # inflight /\ inflight' \subseteq inflight

\* the count of create() is the number of records it has written
C21_CountIsWritten ==
    sPc = "create" =>
        /\ count = Cardinality(Written)
        /\ Written \subseteq
               {<<(ns1Prefix \o k) \o "." \o ZoneName, t>> :
                   k \in DOMAIN Upserts, t \in {"A", "SRV"}}
        /\ DOMAIN todo # {} => ENABLED CreateIterationAny
        /\ (DOMAIN todo = {} /\ inflight = {}) => ENABLED CreateDone

\* C21: the count of create() is the number of records it has written, 0
\* when every call failed and 2 per service when none did; whatever calls
\* have failed, the loop of create() goes on to the next service and
\* remove() runs after it; a call that returns, failed or not, leaves the
\* services still to do and the other calls under way as they are, and the
\* count goes up by one exactly when the call has changed the zone
C21_FailuresAreLocal ==
    /\ []C21_CountIsWritten
    /\ [][WriteReturns =>
            /\ Cardinality(inflight \ inflight') = 1
            /\ todo' = todo
            /\ sPc' = sPc
            /\ \/ count' = count + 1 /\ zone' # zone
               \/ count' = count /\ zone' = zone]_vars

\* create() has returned 3 for two new services: the Create of the A
\* record of s1 failed, the three other records are in the zone
C21_Witness ==
    /\ sPc = "create"
    /\ DOMAIN todo = {} /\ inflight = {}
    /\ DOMAIN Upserts = {"s1", "s2"}
    /\ count = 3
    /\ DOMAIN zone = {<<(ns1Prefix \o "s1") \o "." \o ZoneName, "SRV">>,
                      <<(ns1Prefix \o "s2") \o "." \o ZoneName, "A">>,
                      <<(ns1Prefix \o "s2") \o "." \o ZoneName, "SRV">>}

-----------------------------------------------------------------------------
(* ns1.remove applied to arbitrary deletion sets *)

\* a service of the deletion set: each record ID present or not, with or
\* without an instance
DeletionServices(k) ==
    {[ZeroService EXCEPT !.name = k,
                         !.ns1IDs = [aRecID |-> a, srvRecID |-> b],
                         !.nodes = n] :
        a \in {"", "r1"}, b \in {"", "r2"},
        n \in {EmptyMap,
               [h \in {"10.0.0.1"} |->
                   [aRecAnswer |-> "10.0.0.1",
                    srvRecAnswers |-> [p \in {80} |-> StdSrv("10.0.0.1", 1)]]]}}

\* deletion sets: a service s1 and a service named as the zone, each absent
\* or any of the services above
DeletionSets ==
    LET first == {EmptyMap} \cup {[k \in {"s1"} |-> v] : v \in DeletionServices("s1")}
    IN  first \cup {Put(m, ZoneName, v) : m \in first, v \in DeletionServices(ZoneName)}

\* create() has returned and remove(dA) is about to start: the Consul
\* mirror's cache is empty, so that dA is the deletion set
InitRemove ==
    /\ ns1Prefix \in {"", ServicePrefix}
    /\ dnsTTL = DefaultTTL
    /\ pollIntervalOK = TRUE
    /\ registry = EmptyMap
    /\ regChanges = 0
    /\ zoneExists = TRUE
    /\ zone = EmptyMap
    /\ cServices = EmptyMap
    /\ dA \in DeletionSets
    /\ nServices = dA
    /\ cTrigger = 0
    /\ nTrigger = 0
    /\ cPc = "fetch"
    /\ subsequentErrors = 0
    /\ waitIndex = 1
    /\ nPc = "fetch"
    /\ sPc = "create"
    /\ cTriggered = TRUE
    /\ nTriggered = TRUE
    /\ todo = EmptyMap
    /\ inflight = {}
    /\ count = 0
    /\ syncPc = "select"
    /\ awaiting = <<>>
    /\ closed = {}
    /\ cliPc = "select"
    /\ sigPending = "none"
    /\ exitCode = -1
    /\ hist = [NoHistory EXCEPT !.agentsStarted = TRUE, !.cRefreshed = TRUE,
                                !.nRefreshed = TRUE]
    /\ dB = EmptyMap
    /\ dOut = EmptyMap
    /\ dPc = "idle"

\* the loop of remove, its workers not yet run
SpecRemove == InitRemove /\ [][CreateDone]_vars

\* the delete calls started for type t of the service under key k
DeletesFor(k, t) ==
    {c \in inflight :
        /\ c.op = "delete"
        /\ c.rec.Domain = removeDomain(k, ns1Prefix)
        /\ c.rec.Type = t}

\* C22: remove() starts one delete call for each type of each service whose
\* record ID of that type is not empty, none for a type whose ID is empty,
\* and no other call, whatever the instances of the service
C22_DeleteByID ==
    sPc = "remove" =>
        /\ \A k \in DOMAIN dA : \A t \in {"A", "SRV"} :
              Cardinality(DeletesFor(k, t)) =
                  (IF RecordIDOf(dA[k], t) # "" THEN 1 ELSE 0)
        /\ inflight = UNION {DeletesFor(k, t) : k \in DOMAIN dA, t \in {"A", "SRV"}}

\* a service with instances and an A record ID only, and a service with an
\* SRV record ID only: one delete call each
C22_Witness ==
    /\ sPc = "remove"
    /\ DOMAIN dA = {"s1", ZoneName}
    /\ dA["s1"].ns1IDs = [aRecID |-> "r1", srvRecID |-> ""]
    /\ dA["s1"].nodes # EmptyMap
    /\ dA[ZoneName].ns1IDs = [aRecID |-> "", srvRecID |-> "r2"]
    /\ {<<c.rec.Domain, c.rec.Type>> : c \in inflight} =
           {<<(ns1Prefix \o "s1") \o "." \o ZoneName, "A">>, <<ZoneName, "SRV">>}

\* C25: the delete calls of the service whose key is the zone name are
\* made at the zone name itself, those of any other key k at
\* prefix + k + "." + zone name
C25_ApexOnDelete ==
    sPc = "remove" =>
        /\ \A c \in inflight :
              \E k \in DOMAIN dA :
                  c.rec.Domain = (IF k = ZoneName THEN ZoneName
                                  ELSE ns1Prefix \o k \o "." \o ZoneName)
        /\ \A k \in DOMAIN dA :
              dA[k].ns1IDs # NoIDs =>
                  \E c \in inflight :
                      c.rec.Domain = (IF k = ZoneName THEN ZoneName
                                      ELSE ns1Prefix \o k \o "." \o ZoneName)

\* under the prefix "svc-": both records of the apex deleted at the zone
\* name, both records of s1 at svc-s1 under the zone
C25_Witness ==
    /\ sPc = "remove"
    /\ ns1Prefix = ServicePrefix
    /\ {<<c.rec.Domain, c.rec.Type>> : c \in inflight} =
           {<<"example.com", "A">>, <<"example.com", "SRV">>,
            <<"svc-s1.example.com", "A">>, <<"svc-s1.example.com", "SRV">>}

-----------------------------------------------------------------------------
(* The domains create() writes at *)

\* C23: the calls started for an iterated service under key k, one of each
\* type, name the domain prefix + k + "." + zone name, and no call names
\* any other domain
C23_PrefixedDomain ==
    /\ \A c \in inflight :
          \E k \in Iterated : c.rec.Domain = ns1Prefix \o k \o "." \o ZoneName
    /\ \A k \in Iterated :
          {c.rec.Type : c \in {x \in inflight :
                                  x.rec.Domain = ns1Prefix \o k \o "." \o ZoneName}}
              = {"A", "SRV"}

\* under the prefix "svc-": s1 updated from the records fetched at
\* svc-s1 under the zone, s2 created at svc-s2 under the zone
C23_Witness ==
    /\ ns1Prefix = ServicePrefix
    /\ Iterated = {"s1", "s2"}
    /\ {<<c.rec.Domain, c.rec.Type, c.op, c.rec.Meta>> : c \in inflight} =
           {<<"svc-s1.example.com", "A", "update", "custom">>,
            <<"svc-s1.example.com", "SRV", "update", "custom">>,
            <<"svc-s2.example.com", "A", "create", "default">>,
            <<"svc-s2.example.com", "SRV", "create", "default">>}

\* C24: the two calls started for the service whose key is the zone name
\* name the zone name itself as their domain
C24_ApexOnUpsert ==
    ZoneName \in Iterated =>
        {c.rec.Type : c \in {x \in inflight : x.rec.Domain = ZoneName}}
            = {"A", "SRV"}

-----------------------------------------------------------------------------
(* The records remove() deletes *)

\* the service name the NS1 mirror derives from a record's domain
DerivedName(domain) ==
    TrimSuffix(TrimPrefix(domain, ns1Prefix), "." \o ZoneName)

\* remove() starts
RemoveStarts == sPc = "create" /\ sPc' = "remove"

\* C26: when remove() starts, every A or SRV record of the zone whose
\* derived service name is not in the catalog gets a delete call that names
\* the record's own domain and type
C26_DeletesObservedRecord ==
    [][RemoveStarts =>
          \A key \in DOMAIN zone :
              (key[2] \in {"A", "SRV"} /\ DerivedName(key[1]) \notin DOMAIN registry)
                  => \E c \in inflight' :
                        /\ c.op = "delete"
                        /\ c.rec.Domain = key[1]
                        /\ c.rec.Type = key[2]]_vars

-----------------------------------------------------------------------------
(* The snapshots the Consul mirror publishes *)

\* C27: every service of the Consul mirror's cache has both TTLs equal to
\* the configured TTL, and the cache holds every service of the catalog it
\* was fetched from
C27_PublishedTTLs ==
    /\ \A k \in DOMAIN cServices :
          cServices[k].ttls = [aRecTTL |-> dnsTTL, srvRecTTL |-> dnsTTL]
    /\ dPc # "fetch" => DOMAIN cServices = DOMAIN registry

-----------------------------------------------------------------------------
(* transformNodes applied to arbitrary lists of catalog entries *)

\* the longest list of catalog entries of a service
MaxNodes == 3

\* catalog entries: two node addresses, no service address or one of two,
\* two ports
CatalogNodes ==
    {[CatalogNode(a, p) EXCEPT !.ServiceAddress = sa] :
        a \in {"10.0.0.1", "10.0.0.2"},
        sa \in {"", "10.0.0.2", "10.0.0.3"},
        p \in {80, 5}}

CatalogNodeLists == UNION {[1..n -> CatalogNodes] : n \in 0..MaxNodes}

InitTransform ==
    /\ InitProgram({""}, {DefaultTTL}, {EmptyMap}, {EmptyMap})
    /\ pollIntervalOK
    /\ zoneExists
    /\ dA \in CatalogNodeLists
    /\ dB = EmptyMap
    /\ dOut = EmptyMap
    /\ dPc = "input"

\* s.nodes = c.transformNodes(cnodes)
TransformNodes ==
    /\ dPc = "input"
    /\ dOut' = transformNodes(dA)
    /\ dPc' = "transformed"
    /\ UNCHANGED <<programVars, dA, dB>>

SpecTransform == InitTransform /\ [][TransformNodes]_vars

\* C28: the instances are keyed by the DNS addresses of the entries; the
\* instance at address h has the A answer h and one SRV answer for each
\* port reported at h, of priority 1, weight 1, that port and address h;
\* the entries given twice over make the same instances
C28_OnePerAddress ==
    dPc = "transformed" =>
        LET entries == RangeOf(dA)
        IN  /\ DOMAIN dOut = {InstanceAddress(n) : n \in entries}
            /\ \A h \in DOMAIN dOut :
                  /\ dOut[h].aRecAnswer = h
                  /\ DOMAIN dOut[h].srvRecAnswers =
                         {n.ServicePort : n \in {x \in entries : InstanceAddress(x) = h}}
                  /\ \A p \in DOMAIN dOut[h].srvRecAnswers :
                        dOut[h].srvRecAnswers[p] =
                            [priority |-> 1, weight |-> 1, port |-> p, address |-> h]
            /\ transformNodes(dA \o dA) = dOut

\* three entries of one DNS address, given by the service address of the
\* first and the node address of the others, the first two on one port
C28_Witness ==
    /\ dPc = "transformed"
    /\ dA = <<[CatalogNode("10.0.0.1", 80) EXCEPT !.ServiceAddress = "10.0.0.2"],
              CatalogNode("10.0.0.2", 80), CatalogNode("10.0.0.2", 5)>>
    /\ DOMAIN dOut = {"10.0.0.2"}
    /\ DOMAIN dOut["10.0.0.2"].srvRecAnswers = {5, 80}

-----------------------------------------------------------------------------
(* Two runs on catalogs that differ in the health checks only: the same    *)
(* services and instances, the same zone, the same fetchNodes failures.    *)
(* dA and dB give the outcome of the health fetch of each service in the   *)
(* first and in the second run.                                            *)

\* the check of a service is passing, critical or in another state, or the
\* fetchHealth call fails
HealthOutcomes == {"passing", "critical", "warning", "failed"}

\* the catalog with the checks of outcome h
WithHealth(reg, h) ==
    [k \in DOMAIN reg |->
        [reg[k] EXCEPT !.checks =
            IF h[k] = "failed" THEN <<>>
            ELSE <<[Status |-> h[k], ServiceID |-> "web"]>>]]

\* what a refresh of both mirrors and the pass that follows make of the
\* catalog: the snapshot published, the upsert and the deletion set, and
\* for every service of the upsert set the write calls create() may start
Projection(reg, h, nodesFail, listing) ==
    LET published == consulFetch(WithHealth(reg, h), nodesFail,
                                 {k \in DOMAIN reg : h[k] = "failed"}, dnsTTL)
        observed == transformZoneRecords(listing, ns1Prefix)
        upsert == onlyInFirst(published, observed)
    IN  [published |-> published,
         upsert |-> upsert,
         remove |-> serviceOnlyInFirst(observed, published),
         calls |-> [k \in DOMAIN upsert |->
                      LET domain == ((ns1Prefix \o k) \o ".") \o ZoneName
                      IN  {createCalls(k, upsert[k], ns1Prefix, dnsTTL,
                                       RecordsGet(zone, domain, "A", FALSE),
                                       RecordsGet(zone, domain, "SRV", FALSE),
                                       nodeOrder, portOrders) :
                              nodeOrder \in Orders(DOMAIN upsert[k].nodes),
                              portOrders \in PortOrders(upsert[k].nodes)}]]

InitHealth ==
    /\ InitProgram(Prefixes, {DefaultTTL}, FixCatalogs,
                   UNION {FixZones(p) : p \in Prefixes})
    /\ zone \in FixZones(ns1Prefix)
    /\ pollIntervalOK
    /\ zoneExists
    /\ dA \in [DOMAIN registry -> HealthOutcomes]
    /\ dB \in [DOMAIN registry -> HealthOutcomes]
    /\ dOut = EmptyMap
    /\ dPc = "input"

\* the two runs
ProjectTwice ==
    /\ dPc = "input"
    /\ \E nodesFail \in SUBSET DOMAIN registry, listing \in ZoneListings(zone) :
          dOut' = [first |-> Projection(registry, dA, nodesFail, listing),
                   second |-> Projection(registry, dB, nodesFail, listing)]
    /\ dPc' = "projected"
    /\ UNCHANGED <<programVars, dA, dB>>

SpecHealth == InitHealth /\ [][ProjectTwice]_vars

\* a map of services without their health checks
WithoutHealths(services) ==
    [k \in DOMAIN services |-> [services[k] EXCEPT !.healths = EmptyMap]]

\* C29: the two runs publish the same services with the same instances and
\* TTLs, have the same upsert set (the same services with the same
\* payloads, health checks apart) and the same deletion set, and start the
\* same write calls
C29_HealthNeverGates ==
    dPc = "projected" =>
        /\ WithoutHealths(dOut.first.published) = WithoutHealths(dOut.second.published)
        /\ WithoutHealths(dOut.first.upsert) = WithoutHealths(dOut.second.upsert)
        /\ dOut.first.remove = dOut.second.remove
        /\ dOut.first.calls = dOut.second.calls

\* s1 passing in the first run and critical in the second, published with
\* different health maps, and written with its A answer in both
C29_Witness ==
    /\ dPc = "projected"
    /\ registry = CatalogS1
    /\ dA["s1"] = "passing" /\ dB["s1"] = "critical"
    /\ dOut.first.published["s1"].healths # dOut.second.published["s1"].healths
    /\ \E cs \in dOut.second.calls["s1"] :
          \E c \in cs : c.rec.Type = "A" /\ c.rec.Answers = << <<"10.0.0.1">> >>

-----------------------------------------------------------------------------
(* transformZoneRecords applied to arbitrary zones *)

\* the records a zone may hold: the A and the SRV record of s1, an SRV
\* record at svc-s1, an A record without answers, and records of other types
ZoneRecordPool ==
    (<<"s1." \o ZoneName, "A">> :>
        [ID |-> "a1", TTL |-> 60, Meta |-> "default",
         Answers |-> << <<"10.0.0.1">>, <<"10.0.0.2">> >>])
    @@ (<<"s1." \o ZoneName, "SRV">> :>
        [ID |-> "v1", TTL |-> 30, Meta |-> "default",
         Answers |-> << <<"1", "1", "80", "10.0.0.1">>,
                        <<"1", "1", "5", "10.0.0.1">>,
                        <<"1", "1", "80", "10.0.0.3">> >>])
    @@ (<<"svc-s1." \o ZoneName, "SRV">> :>
        [ID |-> "v2", TTL |-> 60, Meta |-> "default",
         Answers |-> << <<"2", "3", "80", "10.0.0.2">> >>])
    @@ (<<"s2." \o ZoneName, "A">> :>
        [ID |-> "a2", TTL |-> 3600, Meta |-> "custom", Answers |-> <<>>])
    @@ (<<"s2." \o ZoneName, "TXT">> :>
        [ID |-> "t2", TTL |-> 3600, Meta |-> "custom",
         Answers |-> << <<"hello">> >>])
    @@ (<<"mail." \o ZoneName, "MX">> :>
        [ID |-> "m1", TTL |-> 3600, Meta |-> "custom",
         Answers |-> << <<"10", "mx." \o ZoneName>> >>])

\* the zones made of records of the pool
PoolZones ==
    {[key \in keys |-> ZoneRecordPool[key]] : keys \in SUBSET DOMAIN ZoneRecordPool}

\* the NS1 mirror is about to fetch
InitZone == InitPass([p \in Prefixes |-> PoolZones]) /\ registry = EmptyMap

\* one refresh of the NS1 mirror
SpecZone == InitZone /\ [][NS1FetchOK]_vars

\* the A and SRV records of the zone
ServiceRecords == {key \in DOMAIN zone : key[2] \in {"A", "SRV"}}

\* the records of type t with the derived name k
RecordsNamed(k, t) ==
    {key \in ServiceRecords : key[2] = t /\ DerivedName(key[1]) = k}

\* the answers of the records of type t with the derived name k
AnswersNamed(k, t) ==
    UNION {RangeOf(zone[key].Answers) : key \in RecordsNamed(k, t)}

\* C30: the snapshot holds one service for each derived name of an A or SRV
\* record and no other; the A record ID and TTL of a service are those of
\* an A record of its name, the SRV record ID and TTL those of an SRV
\* record of its name, and empty and 0 when there is none; its instances
\* are keyed by the addresses of the answers of these records, each with
\* the A answer and the SRV answers found for its address
C30_ZoneSnapshot ==
    nPc = "send" =>
        /\ DOMAIN nServices = {DerivedName(key[1]) : key \in ServiceRecords}
        /\ \A k \in DOMAIN nServices :
              LET s == nServices[k]
                  aAns == AnswersNamed(k, "A")
                  srvAns == AnswersNamed(k, "SRV")
              IN  /\ s.name = k
                  /\ IF RecordsNamed(k, "A") = {}
                     THEN s.ns1IDs.aRecID = "" /\ s.ttls.aRecTTL = 0
                     ELSE \E key \in RecordsNamed(k, "A") :
                             /\ s.ns1IDs.aRecID = zone[key].ID
                             /\ s.ttls.aRecTTL = zone[key].TTL
                  /\ IF RecordsNamed(k, "SRV") = {}
                     THEN s.ns1IDs.srvRecID = "" /\ s.ttls.srvRecTTL = 0
                     ELSE \E key \in RecordsNamed(k, "SRV") :
                             /\ s.ns1IDs.srvRecID = zone[key].ID
                             /\ s.ttls.srvRecTTL = zone[key].TTL
                  /\ DOMAIN s.nodes = {a[1] : a \in aAns} \cup {a[4] : a \in srvAns}
                  /\ \A h \in DOMAIN s.nodes :
                        /\ s.nodes[h].aRecAnswer = (IF <<h>> \in aAns THEN h ELSE "")
                        /\ {srvAnswerString(s.nodes[h].srvRecAnswers[p]) :
                               p \in DOMAIN s.nodes[h].srvRecAnswers}
                              = {JoinFields(a) : a \in {x \in srvAns : x[4] = h}}

\* the A and the SRV record of s1 merged into one service of three
\* instances, the records of other types left out
C30_Witness ==
    /\ nPc = "send"
    /\ ns1Prefix = ""
    /\ DOMAIN zone = {<<"s1." \o ZoneName, "A">>, <<"s1." \o ZoneName, "SRV">>,
                      <<"s2." \o ZoneName, "TXT">>, <<"mail." \o ZoneName, "MX">>}
    /\ DOMAIN nServices = {"s1"}
    /\ nServices["s1"].ns1IDs = [aRecID |-> "a1", srvRecID |-> "v1"]
    /\ nServices["s1"].ttls = [aRecTTL |-> 60, srvRecTTL |-> 30]
    /\ DOMAIN nServices["s1"].nodes = {"10.0.0.1", "10.0.0.2", "10.0.0.3"}
    /\ DOMAIN nServices["s1"].nodes["10.0.0.1"].srvRecAnswers = {5, 80}

-----------------------------------------------------------------------------
(* transformZoneRecords applied to SRV records with malformed answers *)

\* the longest answer list of the record
MaxAnswers == 3

\* answers of an SRV record: two well formed, one with a port and one with
\* a priority that is no number, and one of three fields
SrvAnswerPool ==
    {<<"1", "1", "80", "10.0.0.1">>,
     <<"1", "1", "5", "10.0.0.2">>,
     <<"1", "1", "http", "10.0.0.3">>,
     <<"high", "1", "80", "10.0.0.1">>,
     <<"1", "80", "10.0.0.4">>}

\* the zones holding the SRV record of s1 with a list of these answers
MalformedZones(prefix) ==
    {[key \in {<<(prefix \o "s1") \o "." \o ZoneName, "SRV">>} |->
         [ID |-> "v1", TTL |-> 30, Meta |-> "default", Answers |-> answers]] :
     answers \in UNION {[1..n -> SrvAnswerPool] : n \in 0..MaxAnswers}}

InitMalformed ==
    InitPass([p \in Prefixes |-> MalformedZones(p)]) /\ registry = EmptyMap

\* one refresh of the NS1 mirror
SpecMalformed == InitMalformed /\ [][NS1FetchOK]_vars

\* the answer has four fields, the first three of them numbers
WellFormed(a) ==
    /\ Len(a) = 4
    /\ ParseInt(a[1]).ok /\ ParseInt(a[2]).ok /\ ParseInt(a[3]).ok

\* C31: the service of the record is in the snapshot with the record's ID
\* and TTL; its instances are those of the well-formed answers of the
\* record and their SRV answers the well-formed answers, wherever the
\* malformed answers stand in the list
C31_MalformedDropped ==
    nPc = "send" =>
        \A key \in DOMAIN zone :
            LET k == DerivedName(key[1])
                good == {a \in RangeOf(zone[key].Answers) : WellFormed(a)}
            IN  /\ k \in DOMAIN nServices
                /\ nServices[k].ns1IDs.srvRecID = zone[key].ID
                /\ nServices[k].ttls.srvRecTTL = zone[key].TTL
                /\ DOMAIN nServices[k].nodes = {a[4] : a \in good}
                /\ \A h \in DOMAIN nServices[k].nodes :
                      {srvAnswerString(nServices[k].nodes[h].srvRecAnswers[p]) :
                          p \in DOMAIN nServices[k].nodes[h].srvRecAnswers}
                          = {JoinFields(a) : a \in {x \in good : x[4] = h}}

-----------------------------------------------------------------------------
(* generateRecord applied to arbitrary arguments *)

\* the TTLs configured in the calls of generateRecord on its own
GenerateTTLs == {DefaultTTL, 300}

\* the arguments: an ID or none, three names, both types
GenerateInputs ==
    [id : {"", "r1"}, name : {"s1", "s2", ServicePrefix \o "s1"}, t : {"A", "SRV"}]

InitGenerate ==
    /\ InitProgram({""}, GenerateTTLs, {EmptyMap},
                   {EmptyMap, ExistingZone("", "s1"),
                    ExistingZone(ServicePrefix, "s1")})
    /\ pollIntervalOK
    /\ zoneExists
    /\ dA \in GenerateInputs
    /\ dB = EmptyMap
    /\ dOut = EmptyMap
    /\ dPc = "input"

\* n.generateRecord(dA.id, dA.name, dA.t); the Records.Get call may fail
GenerateRecord ==
    /\ dPc = "input"
    /\ \E fails \in BOOLEAN :
          dOut' = [fails  |-> fails,
                   result |-> generateRecord(
                                  dA.id, dA.name, dA.t,
                                  RecordsGet(zone, dA.name \o "." \o ZoneName,
                                             dA.t, fails),
                                  dnsTTL)]
    /\ dPc' = "generated"
    /\ UNCHANGED <<programVars, dA, dB>>

SpecGenerate == InitGenerate /\ [][GenerateRecord]_vars

\* C36: with an ID and the record fetched, the result has the domain, the
\* type and the other fields of the record in the zone, no answer, and the
\* configured TTL; with an ID and the fetch failing there is an error;
\* without an ID the result is the default record with the configured TTL,
\* whatever the zone holds and whether or not the provider answers
C36_GenerateRecord ==
    dPc = "generated" =>
        LET domain == dA.name \o "." \o ZoneName
            key == <<domain, dA.t>>
            r == dOut.result
        IN  /\ dA.id = "" =>
                  /\ r.ok
                  /\ r.rec = [Domain |-> domain, Type |-> dA.t, TTL |-> dnsTTL,
                              Answers |-> <<>>, Meta |-> "default"]
            /\ (dA.id # "" /\ ~dOut.fails /\ key \in DOMAIN zone) =>
                  /\ r.ok
                  /\ r.rec = [Domain |-> domain, Type |-> dA.t, TTL |-> dnsTTL,
                              Answers |-> <<>>, Meta |-> zone[key].Meta]
            /\ (dA.id # "" /\ (dOut.fails \/ key \notin DOMAIN zone)) => ~r.ok

\* the SRV record at svc-s1 fetched: its other fields kept, its answer
\* removed and its TTL of 3600 replaced by 300
C36_Witness ==
    /\ dPc = "generated"
    /\ dA = [id |-> "r1", name |-> ServicePrefix \o "s1", t |-> "SRV"]
    /\ dnsTTL = 300
    /\ <<"svc-s1.example.com", "SRV">> \in DOMAIN zone
    /\ zone[<<"svc-s1.example.com", "SRV">>].TTL = 3600
    /\ Len(zone[<<"svc-s1.example.com", "SRV">>].Answers) = 1
    /\ dOut.result.ok
    /\ dOut.result.rec.Meta = "custom"
    /\ dOut.result.rec.TTL = 300
    /\ dOut.result.rec.Answers = <<>>

-----------------------------------------------------------------------------
(* Passes under -ns1-dns-ttl=0 over a zone that already holds the records   *)
(* of the catalog's services.  No call fails.                                *)

\* the TTLs the records of the zone carry
RecordTTLs == {3600, 300, DefaultTTL}

\* the zone a pass leaves for catalog reg when the TTL is ttl: for every
\* service the A and the SRV record create() builds
MatchedZone(prefix, reg, ttl) ==
    LET snap == consulFetch(reg, {}, {}, ttl)
        callsOf(k) ==
            createCalls(k, snap[k], prefix, ttl,
                        RecordsGet(EmptyMap, "", "A", TRUE),
                        RecordsGet(EmptyMap, "", "SRV", TRUE),
                        CHOOSE o \in Orders(DOMAIN snap[k].nodes) : TRUE,
                        CHOOSE o \in PortOrders(snap[k].nodes) : TRUE)
        calls == UNION {callsOf(k) : k \in DOMAIN snap}
    IN  [key \in {<<c.rec.Domain, c.rec.Type>> : c \in calls} |->
            LET c == CHOOSE x \in calls : <<x.rec.Domain, x.rec.Type>> = key
            IN  [ID |-> RecordID(key[1], key[2]), TTL |-> ttl,
                 Answers |-> c.rec.Answers, Meta |-> c.rec.Meta]]

MatchedZones(prefix) ==
    {MatchedZone(prefix, reg, ttl) : reg \in FixCatalogs, ttl \in RecordTTLs}

InitZeroTTL ==
    /\ InitPassWith(0, [p \in Prefixes |-> MatchedZones(p)])
    /\ \E ttl \in RecordTTLs : zone = MatchedZone(ns1Prefix, registry, ttl)

\* every call of consul.fetch is answered
NextZeroTTL ==
    \/ FixStart({}, {})
    \/ FixAgain
    \/ CreateIteration(FALSE, FALSE)
    \/ Worker(FALSE)
    \/ CreateDone
    \/ RemoveDone

SpecZeroTTL == InitZeroTTL /\ [][NextZeroTTL]_vars

\* the instances of the zone's records are those of the catalog
InstancesMatch ==
    \A k \in DOMAIN cServices :
        /\ k \in DOMAIN nServices
        /\ nodesAreEqual(cServices[k].nodes, nServices[k].nodes)

\* C32: with the TTL configured to 0 and the zone holding the records of
\* the catalog's services under TTLs that are not 0, no pass has a service
\* to upsert, no write call is made, and the TTLs of the zone stay as they
\* are
C32_ZeroTTLForcesNothing ==
    /\ (sPc = "create" /\ InstancesMatch) => DOMAIN todo = {}
    /\ inflight = {}
    /\ \A key \in DOMAIN zone : zone[key].TTL # 0

-----------------------------------------------------------------------------
(* The reconciler and its stop channel *)

\* C38: no pass starts once the supervisor has closed the reconciler's stop
\* channel
C38_NoPassAfterStop == [][PassStarts => "toNS1Stop" \notin closed]_vars

\* C39: a Create call is started only for a record the zone does not hold
C39_CreateOnlyAbsent ==
    [][\A c \in inflight' \ inflight :
          c.op = "create" => <<c.rec.Domain, c.rec.Type>> \notin DOMAIN zone]_vars

-----------------------------------------------------------------------------
(* Tokens and passes *)

\* the successful refreshes of the Consul mirror no pass has used yet: the
\* token the mirror is about to send, the token in the channel, and the flag
\* the reconciler has set and not yet used for a pass
UnusedConsul ==
    (IF cPc = "send" THEN 1 ELSE 0) + cTrigger
        + (IF cTriggered /\ sPc = "select" THEN 1 ELSE 0)

\* the same for the NS1 mirror
UnusedNS1 ==
    (IF nPc = "send" THEN 1 ELSE 0) + nTrigger
        + (IF nTriggered /\ sPc = "select" THEN 1 ELSE 0)

\* C33: every pass that starts uses up a successful refresh of each mirror
\* that no earlier pass has used, and only a successful refresh adds one,
\* one at a time: the passes started never outnumber the successful
\* refreshes of either mirror, and tokens of one mirror alone start no pass
C33_NoAmplification ==
    [][/\ PassStarts =>
            /\ UnusedConsul >= 1
            /\ UnusedNS1 >= 1
            /\ UnusedConsul' <= UnusedConsul - 1
            /\ UnusedNS1' <= UnusedNS1 - 1
       /\ UnusedConsul' > UnusedConsul =>
            /\ cPc = "fetch"
            /\ cPc' = "send"
            /\ UnusedConsul' = UnusedConsul + 1
       /\ UnusedNS1' > UnusedNS1 =>
            /\ nPc = "fetch"
            /\ nPc' = "send"
            /\ UnusedNS1' = UnusedNS1 + 1]_vars

\* three refreshes of the Consul mirror, none of the NS1 mirror: the flag is
\* set, a token is in the channel, a third is being offered, and no pass
\* has started
C33_Witness ==
    /\ sPc = "select"
    /\ cTriggered
    /\ cTrigger = 1
    /\ cPc = "send"
    /\ ~nTriggered
    /\ ~hist.nRefreshed
    /\ ~hist.writes
    /\ todo = EmptyMap

-----------------------------------------------------------------------------
(* Failed refreshes *)

\* the step of the Consul mirror whose c.fetch returned an error
ConsulFetchFails == cPc = "fetch" /\ cPc' \in {"check", "done"}

\* the step of the NS1 mirror whose n.fetch returned an error
NS1FetchFails == nPc = "fetch" /\ nPc' = "wait"

\* C34: a failed refresh leaves the mirror's snapshot and its trigger
\* channel as they are and, for the Consul mirror, the wait index of the
\* next call; a token enters a trigger channel only from a mirror that is
\* offering one, and a mirror comes to offer one only by a refresh that
\* installed a snapshot
C34_FailedRefreshNoEffect ==
    [][/\ ConsulFetchFails =>
            /\ cServices' = cServices
            /\ cTrigger' = cTrigger
            /\ waitIndex' = waitIndex
       /\ NS1FetchFails =>
            /\ nServices' = nServices
            /\ nTrigger' = nTrigger
       /\ cTrigger' > cTrigger => cPc = "send"
       /\ nTrigger' > nTrigger => nPc = "send"
       /\ (cPc # "send" /\ cPc' = "send") =>
            /\ cPc = "fetch"
            /\ hist'.cFresh
            /\ cServices' = consulFetch(registry, {}, {}, dnsTTL)
       /\ (nPc # "send" /\ nPc' = "send") =>
            /\ nPc = "fetch"
            /\ hist'.nFresh
            /\ \E listing \in ZoneListings(zone) :
                  nServices' = transformZoneRecords(listing, ns1Prefix)]_vars

\* the Consul mirror has failed twice after a refresh whose token was
\* received: snapshot and index of that refresh are in place; the NS1
\* mirror has failed and has no snapshot and no token
C34_Witness ==
    /\ cPc = "check"
    /\ subsequentErrors = 2
    /\ waitIndex = LastIndex(0)
    /\ "s1" \in DOMAIN cServices
    /\ cTrigger = 0
    /\ cTriggered
    /\ nPc = "wait"
    /\ hist.nFailRun = 1
    /\ ~hist.nRefreshed
    /\ nServices = EmptyMap
    /\ nTrigger = 0

-----------------------------------------------------------------------------
(* The two diffs of a pass *)

\* C37: when remove() starts, no service it deletes the records of has been
\* iterated by the create() of the same pass
C37_UpsertDeleteDisjoint ==
    [][RemoveStarts =>
          DOMAIN serviceOnlyInFirst(nServices, cServices) \cap hist.upserted
              = {}]_vars

-----------------------------------------------------------------------------
(* The snapshots as Go maps: objects that are shared by reference.          *)
(* dA is the heap, from the address of a map to its content; dB holds the   *)
(* pointers c.services ("c"), n.services ("n") and the reconciler's upsert  *)
(* map ("upsert"); dOut holds, for every map that was installed by          *)
(* setServices or returned by onlyInFirst, the value it had then.  A        *)
(* service in a map object has the address of its nodes map in the place    *)
(* of the nodes, a node the address of its srvRecAnswers map.  An address   *)
(* is <<g>> for the g-th map[string]service made, <<g, k>> for the nodes    *)
(* map of its service k, <<g, k, h>> for the SRV answers of node h of k.    *)

\* the nil map; a map without keys is represented as nil
Nil == <<>>

\* number of map[string]service objects made during a run
MaxMaps == 5

\* the next map[string]service made
NextMap(heap) == 1 + Cardinality({a \in DOMAIN heap : Len(a) = 1})

\* the maps a transformation allocates when it builds snapshot snap as the
\* g-th map: the services, the nodes of each service, the SRV answers of
\* each node
Alloc(snap, g) ==
    LET withNodes == {k \in DOMAIN snap : snap[k].nodes # EmptyMap}
        nodesAt(k) == IF k \in withNodes THEN <<g, k>> ELSE Nil
        srvAt(k, h) ==
            IF snap[k].nodes[h].srvRecAnswers # EmptyMap
            THEN <<g, k, h>> ELSE Nil
        addrs == {<<g>>} \cup {<<g, k>> : k \in withNodes}
                    \cup UNION {{<<g, k, h>> :
                                    h \in {x \in DOMAIN snap[k].nodes :
                                             srvAt(k, x) # Nil}} :
                                k \in withNodes}
    IN  [a \in addrs |->
            CASE Len(a) = 1 ->
                    [k \in DOMAIN snap |-> [snap[k] EXCEPT !.nodes = nodesAt(k)]]
              [] Len(a) = 2 ->
                    [h \in DOMAIN snap[a[2]].nodes |->
                        [snap[a[2]].nodes[h] EXCEPT
                            !.srvRecAnswers = srvAt(a[2], h)]]
              [] Len(a) = 3 -> snap[a[2]].nodes[a[3]].srvRecAnswers]

\* the nodes reached through pointer p
DeepNodes(heap, p) ==
    IF p = Nil THEN EmptyMap
    ELSE [h \in DOMAIN heap[p] |->
            [heap[p][h] EXCEPT
                !.srvRecAnswers = IF @ = Nil THEN EmptyMap ELSE heap[@]]]

\* the services reached through pointer p: keys, services, instance maps
\* and SRV-answer maps
Deep(heap, p) ==
    [k \in DOMAIN heap[p] |->
        [heap[p][k] EXCEPT !.nodes = DeepNodes(heap, @)]]

\* onlyInFirst(c.getServices(), n.getServices()) on the heap: a new map
\* whose services have the nodes pointer of the service in the first map
\* (result[k] = sa, and nodes = sa.nodes)
onlyInFirstMap(heap, pa, pb) ==
    LET result == onlyInFirst(Deep(heap, pa), Deep(heap, pb))
    IN  [k \in DOMAIN result |->
            [result[k] EXCEPT
                !.nodes = IF @ = EmptyMap THEN Nil ELSE heap[pa][k].nodes]]

\* c.fetch writing the services into the map that is installed, once there
\* is one
HeapConsulFetch_inPlace(nodesFail) ==
    /\ NextMap(dA) <= MaxMaps
    /\ cPc = "fetch"
    /\ nodesFail \subseteq DOMAIN registry
    /\ cServices' = consulFetch(registry, nodesFail, {}, dnsTTL)
    /\ waitIndex' = LastIndex(regChanges)
    /\ IF "c" \in DOMAIN dB
       THEN /\ dA' = Alloc(cServices', dB["c"][1])
                       @@ [a \in {x \in DOMAIN dA : x[1] # dB["c"][1]} |-> dA[a]]
            /\ UNCHANGED <<dB, dOut>>
       ELSE /\ dA' = Alloc(cServices', NextMap(dA)) @@ dA
            /\ dB' = Put(dB, "c", <<NextMap(dA)>>)
            /\ dOut' = Put(dOut, <<NextMap(dA)>>, cServices')
    /\ UNCHANGED <<cfgVars, registry, regChanges, zone, cTrigger, cPc,
                   subsequentErrors, ns1Vars, passVars, superVars, closed,
                   cliVars, hist, dPc>>

\* c.fetch: transformServices and transformNodes make new maps, the
\* services are written into them, and setServices installs the result
HeapConsulFetch(nodesFail) ==
    /\ NextMap(dA) <= MaxMaps
    /\ cPc = "fetch"
    /\ nodesFail \subseteq DOMAIN registry
    /\ cServices' = consulFetch(registry, nodesFail, {}, dnsTTL)
    /\ waitIndex' = LastIndex(regChanges)
    /\ dA' = Alloc(cServices', NextMap(dA)) @@ dA
    /\ dB' = Put(dB, "c", <<NextMap(dA)>>)
    /\ dOut' = Put(dOut, <<NextMap(dA)>>, cServices')
    /\ UNCHANGED <<cfgVars, registry, regChanges, zone, cTrigger, cPc,
                   subsequentErrors, ns1Vars, passVars, superVars, closed,
                   cliVars, hist, dPc>>

\* n.fetch: transformZoneRecords makes new maps and setServices installs
\* the result
HeapNS1Fetch ==
    /\ NextMap(dA) <= MaxMaps
    /\ nPc = "fetch"
    /\ \E listing \in ZoneListings(zone) :
          nServices' = transformZoneRecords(listing, ns1Prefix)
    /\ dA' = Alloc(nServices', NextMap(dA)) @@ dA
    /\ dB' = Put(dB, "n", <<NextMap(dA)>>)
    /\ dOut' = Put(dOut, <<NextMap(dA)>>, nServices')
    /\ UNCHANGED <<cfgVars, registry, regChanges, zone, nTrigger, nPc,
                   consulVars, passVars, superVars, closed, cliVars, hist,
                   dPc>>

\* consul.sync starts a pass: both maps are read and onlyInFirst returns
\* the upsert map
HeapPassStart ==
    /\ NextMap(dA) <= MaxMaps
    /\ sPc = "select"
    /\ {"c", "n"} \subseteq DOMAIN dB
    /\ cTriggered' = TRUE
    /\ nTriggered' = TRUE
    /\ dA' = [a \in {<<NextMap(dA)>>} |->
                 onlyInFirstMap(dA, dB["c"], dB["n"])] @@ dA
    /\ dB' = Put(dB, "upsert", <<NextMap(dA)>>)
    /\ dOut' = Put(dOut, <<NextMap(dA)>>, Deep(dA', <<NextMap(dA)>>))
    /\ todo' = Deep(dA', <<NextMap(dA)>>)
    /\ count' = 0
    /\ sPc' = "create"
    /\ UNCHANGED <<cfgVars, registry, regChanges, zone, consulVars, ns1Vars,
                   inflight, superVars, closed, cliVars, hist, dPc>>

\* no prefix; the catalog holds s1 or nothing
InitHeap ==
    /\ InitPass([p \in Prefixes |-> FixZones(p)])
    /\ ns1Prefix = ""
    /\ registry \in Catalogs

HeapConsulFetchAny ==
    \E nodesFail \in SUBSET DOMAIN registry : HeapConsulFetch(nodesFail)

\* the catalog changes, the mirrors refresh and passes run, the refreshes
\* at any point of a pass; create() and remove() only read the maps
NextHeap ==
    \/ RegistryChange
    \/ HeapConsulFetchAny
    \/ HeapNS1Fetch
    \/ HeapPassStart
    \/ CreateIteration(FALSE, FALSE)
    \/ Worker(FALSE)
    \/ CreateDone
    \/ RemoveDone

SpecHeap == InitHeap /\ [][NextHeap]_vars

\* C35: every map installed by setServices, and every map returned by
\* onlyInFirst, has at every later point the keys, services, instance maps
\* and SRV-answer maps it had when it was installed or returned; the
\* installed maps are those of the mirrors' caches
C35_SnapshotsImmutable ==
    /\ \A p \in DOMAIN dOut : Deep(dA, p) = dOut[p]
    /\ "c" \in DOMAIN dB => Deep(dA, dB["c"]) = cServices
    /\ "n" \in DOMAIN dB => Deep(dA, dB["n"]) = nServices

\* during create() the upsert map shares the nodes map of a service with a
\* snapshot the Consul mirror installed and has since replaced by another
\* with other content
C35_Witness ==
    /\ sPc = "create"
    /\ {"c", "upsert"} \subseteq DOMAIN dB
    /\ \E k \in DOMAIN dA[dB["upsert"]] :
          LET p == dA[dB["upsert"]][k].nodes
          IN  /\ p # Nil
              /\ <<p[1]>> # dB["c"]
              /\ <<p[1]>> \in DOMAIN dOut
              /\ dOut[<<p[1]>>] # cServices
              /\ DeepNodes(dA, p) = todo[k].nodes

====
